---------------------------- MODULE Spec2Model ----------------------------
(***************************************************************************)
(* A model of the analytical polynomial solvers of the `roots` crate       *)
(* (src/src/analytical) and of the Roots container they return.            *)
(*                                                                         *)
(* Numbers.  The crate is generic over a FloatType.  The model computes in *)
(* exact rational arithmetic: a number is a pair <<n, d>> with d > 0 and   *)
(* gcd(n, d) = 1.  +, -, *, / and the comparisons are exact.  sqrt and     *)
(* cbrt are computed exactly where the result is rational; where it is     *)
(* not (and for acos / cos / atan / sin, which have no rational values on  *)
(* the arguments the solvers pass) the result is the value NaR, "not a     *)
(* rational", which every later operation propagates.  A numerator or      *)
(* denominator above MaxNum is not representable either and is NaR too.    *)
(* A division by zero gives the value DivZero, propagated the same way.    *)
(* A solver whose computation meets NaR returns Inexact: the model says    *)
(* nothing about that input.                                               *)
(***************************************************************************)
EXTENDS Integers, Sequences, FiniteSets, TLC

VARIABLES pc, fn, args, res, roots, old, new, loc, conv

vars == <<pc, fn, args, res, roots, old, new, loc, conv>>

----------------------------------------------------------------------------
(* Bounds of the model. *)

\* largest numerator / denominator the model's numbers hold
MaxNum == 1000000000
\* coefficients of the linear solver are drawn from -MaxLin .. MaxLin
MaxLin == 8
\* coefficients of the quadratic and biquadratic solvers: -MaxQuad .. MaxQuad
MaxQuad == 6
\* coefficients of the depressed cubic solver: -MaxDep .. MaxDep
MaxDep == 16
\* coefficients of the normalized cubic and depressed quartic solvers
MaxNorm == 6
\* coefficients of the cubic solver: -MaxCub .. MaxCub
MaxCub == 5
\* coefficients of the quartic solver: -MaxQuart .. MaxQuart
MaxQuart == 3
\* values given to add_new_root: -MaxVal .. MaxVal
MaxVal == 2
\* roots of the quartics with multiple roots: n/1 and n/2, n in -MaxRoot .. MaxRoot
MaxRoot == 2
\* their leading coefficients: -MaxLead .. MaxLead without 0
MaxLead == 2

----------------------------------------------------------------------------
(* Exact rational arithmetic: the FloatType operations of src/src/float.rs *)

Abs(i) == IF i < 0 THEN -i ELSE i

RECURSIVE GCD(_, _)
GCD(a, b) == IF b = 0 THEN a ELSE GCD(b, a % b)

NaR == <<0, 0>>
DivZero == <<1, 0>>

\* a value that is no rational number: NaR or DivZero
NotNum(x) == x[2] = 0

\* the first of x, y that is no number
Bad(x, y) == IF NotNum(x) THEN x ELSE y

MulOK(a, b) == a = 0 \/ b = 0 \/ Abs(a) <= MaxNum \div Abs(b)

\* n / d with the common divisor g taken out, NaR beyond MaxNum
Reduced(n, d, g) ==
    IF Abs(n) \div g > MaxNum \/ d \div g > MaxNum THEN NaR
    ELSE <<n \div g, d \div g>>

\* the rational n / d (d > 0) in lowest terms
Norm(n, d) == Reduced(n, d, GCD(Abs(n), d))

\* F::from(i16) and the constants zero(), one(), two(), ...
R(i) == <<i, 1>>
Zero == R(0)
One == R(1)
Two == R(2)
Three == R(3)
Four == R(4)

RNeg(x) == IF NotNum(x) THEN x ELSE <<-x[1], x[2]>>

\* x + y over the denominator dx * y[2], where dx = x[2] / g, dy = y[2] / g
AddOver(x, y, dx, dy) ==
    IF MulOK(x[1], dy) /\ MulOK(y[1], dx) /\ MulOK(dx, y[2])
    THEN Norm(x[1] * dy + y[1] * dx, dx * y[2])
    ELSE NaR

AddBy(x, y, g) == AddOver(x, y, x[2] \div g, y[2] \div g)

RAdd(x, y) ==
    IF NotNum(x) \/ NotNum(y) THEN Bad(x, y)
    ELSE AddBy(x, y, GCD(x[2], y[2]))

RSub(x, y) == RAdd(x, RNeg(y))

\* (n1 / d1) * (n2 / d2), nothing left to cancel
MulReduced(n1, n2, d1, d2) ==
    IF MulOK(n1, n2) /\ MulOK(d1, d2) THEN <<n1 * n2, d1 * d2>> ELSE NaR

\* x * y, cancelling g1 = gcd(x[1], y[2]) and g2 = gcd(y[1], x[2])
MulBy(x, y, g1, g2) ==
    MulReduced(x[1] \div g1, y[1] \div g2, x[2] \div g2, y[2] \div g1)

RMul(x, y) ==
    IF NotNum(x) \/ NotNum(y) THEN Bad(x, y)
    ELSE MulBy(x, y, GCD(Abs(x[1]), y[2]), GCD(Abs(y[1]), x[2]))

RDiv(x, y) ==
    IF NotNum(x) \/ NotNum(y) THEN Bad(x, y)
    ELSE IF y[1] = 0 THEN DivZero
    ELSE IF y[1] > 0 THEN RMul(x, <<y[2], y[1]>>)
    ELSE RMul(x, <<-y[2], -y[1]>>)

RAbs(x) == IF NotNum(x) THEN x ELSE <<Abs(x[1]), x[2]>>

\* infix forms of the four operations
x \oplus y == RAdd(x, y)
x \ominus y == RSub(x, y)
x \otimes y == RMul(x, y)
x \oslash y == RDiv(x, y)

\* products, associated to the left as the source's a * b * c
M3(a, b, c) == (a \otimes b) \otimes c
M4(a, b, c, d) == M3(a, b, c) \otimes d
M5(a, b, c, d, e) == M4(a, b, c, d) \otimes e

Five == Two \oplus Three
Nine == Three \otimes Three
TwentySeven == Nine \otimes Three

\* a / b < c / d for b, d > 0, by continued fractions (no product is formed)
RECURSIVE FracLt(_, _, _, _)
FracLt(a, b, c, d) ==
    IF a \div b # c \div d THEN a \div b < c \div d
    ELSE IF c % d = 0 THEN FALSE
    ELSE IF a % b = 0 THEN TRUE
    ELSE FracLt(d, c % d, b, a % b)

\* x < y, for numbers
RLt(x, y) == FracLt(x[1], x[2], y[1], y[2])
RGt(x, y) == RLt(y, x)
RGe(x, y) == ~RLt(x, y)

Mid(lo, hi) == (lo + hi) \div 2

\* m^k for k = 2, 3
Pow(m, k) == IF k = 2 THEN m * m ELSE m * m * m

\* the integer r in lo .. hi with r^k = n, or -1 if there is none (k = 2, 3)
RECURSIVE IRoot(_, _, _, _)
IRoot(n, k, lo, hi) ==
    IF lo > hi THEN -1
    ELSE IF Pow(Mid(lo, hi), k) = n THEN Mid(lo, hi)
    ELSE IF Pow(Mid(lo, hi), k) < n THEN IRoot(n, k, Mid(lo, hi) + 1, hi)
    ELSE IRoot(n, k, lo, Mid(lo, hi) - 1)

Min(a, b) == IF a < b THEN a ELSE b

ISqrt(n) == IRoot(n, 2, 0, Min(n, 46340))
ICbrt(n) == IRoot(n, 3, 0, Min(n, 1290))

\* the fraction of two integer roots, NaR if one of them does not exist
RootOf(n, d) == IF n < 0 \/ d < 0 THEN NaR ELSE <<n, d>>

\* sqrt of a number x >= 0: exact, or NaR
RSqrt(x) ==
    IF NotNum(x) THEN x
    ELSE IF x[1] < 0 THEN NaR
    ELSE RootOf(ISqrt(x[1]), ISqrt(x[2]))

\* cbrt accepts negative arguments: exact, or NaR
RCbrt(x) ==
    IF NotNum(x) THEN x
    ELSE IF x[1] < 0 THEN RNeg(RootOf(ICbrt(-x[1]), ICbrt(x[2])))
    ELSE RootOf(ICbrt(x[1]), ICbrt(x[2]))

\* acos, cos, atan and sin have a rational value only at these arguments
RAcos(x) == IF NotNum(x) THEN x ELSE IF x = One THEN Zero ELSE NaR
RCos(x) == IF NotNum(x) THEN x ELSE IF x = Zero THEN One ELSE NaR
RAtan(x) == IF NotNum(x) THEN x ELSE IF x = Zero THEN Zero ELSE NaR
RSin(x) == IF NotNum(x) THEN x ELSE IF x = Zero THEN Zero ELSE NaR
TwoThirdPi == NaR

----------------------------------------------------------------------------
(* Roots: src/src/analytical/roots.rs.  A Roots value is the sequence of   *)
(* its elements; the variant No / One / Two / Three / Four is its length.  *)

No == <<>>

\* results that are no Roots value
Inexact == <<NaR>>
DivByZero == <<DivZero>>
Panic == <<<<2, 0>>>>

IsRoots(r) == \A i \in 1 .. Len(r) : r[i][2] > 0

\* a Roots value built from the numbers of r, if they all are numbers
Built(r) ==
    IF \E i \in 1 .. Len(r) : r[i] = DivZero THEN DivByZero
    ELSE IF \E i \in 1 .. Len(r) : NotNum(r[i]) THEN Inexact
    ELSE r

\* number of leading elements of self below new_root, up to an equal one
RECURSIVE Scan(_, _, _)
Scan(self, new_root, pos) ==
    IF pos = Len(self) THEN <<FALSE, pos>>
    ELSE IF self[pos + 1] = new_root THEN <<TRUE, pos>>
    ELSE IF RGt(self[pos + 1], new_root) THEN <<FALSE, pos>>
    ELSE Scan(self, new_root, pos + 1)

\* check_new_root without "if *x > new_root { break; }": the position of a
\* missing value is always the end
RECURSIVE ScanAll(_, _, _)
ScanAll(self, new_root, pos) ==
    IF pos = Len(self) THEN <<FALSE, pos>>
    ELSE IF self[pos + 1] = new_root THEN <<TRUE, pos>>
    ELSE ScanAll(self, new_root, pos + 1)

check_new_root_no_break(self, new_root) == ScanAll(self, new_root, 0)

check_new_root(self, new_root) == Scan(self, new_root, 0)

InsertAt(s, pos, x) == SubSeq(s, 1, pos) \o <<x>> \o SubSeq(s, pos + 1, Len(s))

\* add_new_root without "if exists { return self; }"
add_new_root_no_exists(self, new_root) ==
    IF ~IsRoots(self) THEN self
    ELSE IF NotNum(new_root) THEN Built(<<new_root>>)
    ELSE IF Len(self) = 0 THEN <<new_root>>
    ELSE IF Len(self) \in 1 .. 3
    THEN InsertAt(self, check_new_root(self, new_root)[2], new_root)
    ELSE Panic

\* a variant that returns a full Roots unchanged instead of panicking
insert_new_root_keep_full(self, new_root, c) ==
    IF c[1] THEN self
    ELSE IF Len(self) \in 1 .. 3 THEN InsertAt(self, c[2], new_root)
    ELSE self

\* a variant with room for three roots only
insert_new_root_capacity_three(self, new_root, c) ==
    IF c[1] THEN self
    ELSE IF Len(self) \in 1 .. 2 THEN InsertAt(self, c[2], new_root)
    ELSE Panic

\* the match on (old_roots.len(), pos)
insert_new_root(self, new_root, c) ==
    IF c[1] THEN self
    ELSE IF Len(self) \in 1 .. 3 THEN InsertAt(self, c[2], new_root)
    ELSE Panic

add_new_root(self, new_root) ==
    IF ~IsRoots(self) THEN self
    ELSE IF NotNum(new_root) THEN Built(<<new_root>>)
    ELSE IF Len(self) = 0 THEN <<new_root>>
    ELSE insert_new_root(self, new_root, check_new_root(self, new_root))

----------------------------------------------------------------------------
(* src/src/analytical/linear.rs *)

\* find_roots_linear without "if a0 == F::zero()"
linear_no_zero_check(a1, a0) ==
    IF a1 = Zero THEN No ELSE Built(<<RDiv(RNeg(a0), a1)>>)

find_roots_linear(a1, a0) ==
    IF a1 = Zero
    THEN IF a0 = Zero THEN <<Zero>> ELSE No
    ELSE Built(<<RDiv(RNeg(a0), a1)>>)

----------------------------------------------------------------------------
(* src/src/analytical/quadratic.rs *)

\* the two roots without "Order roots"
Unordered(x1, x2) == <<x1, x2>>

\* "Order roots"
Ordered(x1, x2) == IF RLt(x1, x2) THEN <<x1, x2>> ELSE <<x2, x1>>

\* a variant that always divides 2*a0 by same_sign and by diff_sign
quadratic_quotients_by_a0x2(a2x2, a0x2, same_sign, diff_sign) ==
    <<a0x2 \oslash same_sign, a0x2 \oslash diff_sign>>

\* (x1, x2): the two quotients, without the smallest divisor
quadratic_quotients(a2x2, a0x2, same_sign, diff_sign) ==
    IF RGt(RAbs(same_sign), RAbs(a2x2))
    THEN IF RGt(RAbs(diff_sign), RAbs(a2x2))
         THEN <<a0x2 \oslash same_sign, a0x2 \oslash diff_sign>>
         ELSE <<a0x2 \oslash same_sign, same_sign \oslash a2x2>>
    ELSE <<diff_sign \oslash a2x2, same_sign \oslash a2x2>>

quadratic_ordered(x) ==
    IF NotNum(x[1]) \/ NotNum(x[2]) THEN Built(x) ELSE Ordered(x[1], x[2])

quadratic_by_signs(a2, a0, same_sign, diff_sign) ==
    IF NotNum(same_sign) \/ NotNum(diff_sign) THEN Inexact
    ELSE quadratic_ordered(
           quadratic_quotients(Two \otimes a2, Two \otimes a0, same_sign, diff_sign))

\* (same_sign, diff_sign) by the sign of a1
quadratic_by_sqrt(a2, a1, a0, sq) ==
    IF NotNum(sq) THEN Inexact
    ELSE IF RLt(a1, Zero)
    THEN quadratic_by_signs(a2, a0, RNeg(a1) \oplus sq, RNeg(a1) \ominus sq)
    ELSE quadratic_by_signs(a2, a0, RNeg(a1) \ominus sq, RNeg(a1) \oplus sq)

\* the branch discriminant > 0
quadratic_two_roots(a2, a1, a0, discriminant) ==
    quadratic_by_sqrt(a2, a1, a0, RSqrt(discriminant))

\* the three cases with "discriminant <= 0" as the test for no roots
quadratic_cases_no_double_root(a2, a1, a0, discriminant) ==
    IF NotNum(discriminant) THEN Inexact
    ELSE IF RLt(discriminant, Zero) \/ discriminant = Zero THEN No
    ELSE quadratic_two_roots(a2, a1, a0, discriminant)

\* the three cases of the discriminant
quadratic_cases(a2, a1, a0, discriminant) ==
    IF NotNum(discriminant) THEN Inexact
    ELSE IF RLt(discriminant, Zero) THEN No
    ELSE IF discriminant = Zero THEN Built(<<RNeg(a1) \oslash (Two \otimes a2)>>)
    ELSE quadratic_two_roots(a2, a1, a0, discriminant)

\* the branch a2 # 0
quadratic_by_discriminant(a2, a1, a0) ==
    quadratic_cases(a2, a1, a0, (a1 \otimes a1) \ominus ((Four \otimes a2) \otimes a0))

\* find_roots_quadratic without "if a2 == F::zero()"
quadratic_no_linear_case(a2, a1, a0) ==
    IF NotNum(a2) \/ NotNum(a1) \/ NotNum(a0) THEN Built(<<a2, a1, a0>>)
    ELSE quadratic_by_discriminant(a2, a1, a0)

find_roots_quadratic(a2, a1, a0) ==
    IF NotNum(a2) \/ NotNum(a1) \/ NotNum(a0) THEN Built(<<a2, a1, a0>>)
    ELSE IF a2 = Zero THEN find_roots_linear(a1, a0)
    ELSE quadratic_by_discriminant(a2, a1, a0)

----------------------------------------------------------------------------
(* src/src/analytical/biquadratic.rs *)

\* Roots::add_sorted is not defined in roots.rs; the only insertion there is
\* add_new_root (insert in order, drop an equal value)
add_sorted(self, new_root) == add_new_root(self, new_root)

\* a variant that keeps only the positive square root of the one non-negative
\* root of the quadratic
biquadratic_match_positive_only(q) ==
    IF ~IsRoots(q) THEN q
    ELSE IF Len(q) = 1 /\ q[1] = Zero THEN <<Zero>>
    ELSE IF Len(q) = 1 /\ RGt(q[1], Zero)
    THEN Built(<<RNeg(RSqrt(q[1])), RSqrt(q[1])>>)
    ELSE IF Len(q) = 2 /\ q[1] = Zero
    THEN Built(<<RNeg(RSqrt(q[2])), Zero, RSqrt(q[2])>>)
    ELSE IF Len(q) = 2 /\ RGe(q[1], Zero)
    THEN Built(<<RNeg(RSqrt(q[2])), RNeg(RSqrt(q[1])), RSqrt(q[1]), RSqrt(q[2])>>)
    ELSE IF Len(q) = 2 /\ q[2] = Zero THEN <<Zero>>
    ELSE IF Len(q) = 2 /\ RGe(q[2], Zero)
    THEN Built(<<RSqrt(q[2])>>)
    ELSE No

\* the match on the roots q of the quadratic in x^2
biquadratic_match(q) ==
    IF ~IsRoots(q) THEN q
    ELSE IF Len(q) = 1 /\ q[1] = Zero THEN <<Zero>>
    ELSE IF Len(q) = 1 /\ RGt(q[1], Zero)
    THEN Built(<<RNeg(RSqrt(q[1])), RSqrt(q[1])>>)
    ELSE IF Len(q) = 2 /\ q[1] = Zero
    THEN Built(<<RNeg(RSqrt(q[2])), Zero, RSqrt(q[2])>>)
    ELSE IF Len(q) = 2 /\ RGe(q[1], Zero)
    THEN Built(<<RNeg(RSqrt(q[2])), RNeg(RSqrt(q[1])), RSqrt(q[1]), RSqrt(q[2])>>)
    ELSE IF Len(q) = 2 /\ q[2] = Zero THEN <<Zero>>
    ELSE IF Len(q) = 2 /\ RGe(q[2], Zero)
    THEN Built(<<RNeg(RSqrt(q[2])), RSqrt(q[2])>>)
    ELSE No

find_roots_biquadratic(a4, a2, a0) ==
    IF NotNum(a4) \/ NotNum(a2) \/ NotNum(a0) THEN Built(<<a4, a2, a0>>)
    ELSE IF a4 = Zero THEN find_roots_quadratic(a2, Zero, a0)
    ELSE IF a0 = Zero THEN add_sorted(find_roots_quadratic(a4, Zero, a2), Zero)
    ELSE biquadratic_match(find_roots_quadratic(a4, a2, a0))

----------------------------------------------------------------------------
(* src/src/analytical/cubic_depressed.rs *)

\* x1 of the branch d >= 0
depressed_x1(sqrt_d, a0_div_2) ==
    RCbrt(sqrt_d \ominus a0_div_2) \ominus RCbrt(sqrt_d \oplus a0_div_2)

\* the branch d < 0, from phi on
depressed_three_roots(a, phi) ==
    add_new_root(
      add_new_root(Built(<<a \otimes RCos(phi)>>),
                   a \otimes RCos(phi \oplus TwoThirdPi)),
      a \otimes RCos(phi \ominus TwoThirdPi))

\* the branch d < 0, from a on
depressed_by_a(a0, a) ==
    depressed_three_roots(
      a, RAcos((RNeg(Four) \otimes a0) \oslash ((a \otimes a) \otimes a)) \oslash Three)

\* the three cases of d
depressed_cases(a1, a0, d) ==
    IF NotNum(d) THEN Inexact
    ELSE IF RLt(d, Zero)
    THEN depressed_by_a(a0, RSqrt((RNeg(Four) \otimes a1) \oslash Three))
    ELSE IF d = Zero
    THEN add_new_root(Built(<<depressed_x1(RSqrt(d), a0 \oslash Two)>>), a0 \oslash Two)
    ELSE Built(<<depressed_x1(RSqrt(d), a0 \oslash Two)>>)

\* the branch a1 # 0, a0 # 0
depressed_by_discriminant(a1, a0) ==
    depressed_cases(a1, a0,
                    ((a0 \otimes a0) \oslash Four)
                      \oplus (((a1 \otimes a1) \otimes a1) \oslash TwentySeven))

\* find_roots_cubic_depressed without ".add_new_root(F::zero())"
cubic_depressed_no_zero_root(a1, a0) ==
    IF NotNum(a1) \/ NotNum(a0) THEN Built(<<a1, a0>>)
    ELSE IF a1 = Zero THEN Built(<<RNeg(RCbrt(a0))>>)
    ELSE IF a0 = Zero THEN find_roots_quadratic(One, Zero, a1)
    ELSE depressed_by_discriminant(a1, a0)

find_roots_cubic_depressed(a1, a0) ==
    IF NotNum(a1) \/ NotNum(a0) THEN Built(<<a1, a0>>)
    ELSE IF a1 = Zero THEN Built(<<RNeg(RCbrt(a0))>>)
    ELSE IF a0 = Zero
    THEN add_new_root(find_roots_quadratic(One, Zero, a1), Zero)
    ELSE depressed_by_discriminant(a1, a0)

----------------------------------------------------------------------------
(* src/src/analytical/cubic_normalized.rs *)

\* the branch d < 0
normalized_three_roots(sqrt_q_2, phi_3, a2_div_3) ==
    add_new_root(
      add_new_root(
        Built(<<(sqrt_q_2 \otimes RCos(phi_3)) \ominus a2_div_3>>),
        (sqrt_q_2 \otimes RCos(phi_3 \ominus TwoThirdPi)) \ominus a2_div_3),
      (sqrt_q_2 \otimes RCos(phi_3 \oplus TwoThirdPi)) \ominus a2_div_3)

\* the branch d >= 0, from s and t on
normalized_by_s_t(s, t, a2_div_3) ==
    IF NotNum(s) \/ NotNum(t) THEN Built(<<s, t>>)
    ELSE IF s = t
    THEN IF (s \oplus t) = Zero
         THEN Built(<<(s \oplus t) \ominus a2_div_3>>)
         ELSE add_new_root(Built(<<(s \oplus t) \ominus a2_div_3>>),
                           (RNeg(s \oplus t) \oslash R(2)) \ominus a2_div_3)
    ELSE Built(<<(s \oplus t) \ominus a2_div_3>>)

\* the branch d >= 0
normalized_by_sqrt_d(r, sqrt_d, a2_div_3) ==
    normalized_by_s_t(RCbrt(r \oplus sqrt_d), RCbrt(r \ominus sqrt_d), a2_div_3)

\* the two cases of d
normalized_cases(q, r, q3, d, a2_div_3) ==
    IF NotNum(d) THEN Inexact
    ELSE IF RLt(d, Zero)
    THEN normalized_three_roots(R(2) \otimes RSqrt(RNeg(q)),
                                RAcos(r \oslash RSqrt(RNeg(q3))) \oslash R(3),
                                a2_div_3)
    ELSE normalized_by_sqrt_d(r, RSqrt(d), a2_div_3)

normalized_by_q3(a2, q, r, q3) ==
    normalized_cases(q, r, q3, q3 \oplus (r \otimes r), a2 \oslash R(3))

normalized_by_q_r(a2, q, r) == normalized_by_q3(a2, q, r, (q \otimes q) \otimes q)

find_roots_cubic_normalized(a2, a1, a0) ==
    IF NotNum(a2) \/ NotNum(a1) \/ NotNum(a0) THEN Built(<<a2, a1, a0>>)
    ELSE normalized_by_q_r(
           a2,
           ((Three \otimes a1) \ominus (a2 \otimes a2)) \oslash R(9),
           ((((R(9) \otimes a2) \otimes a1) \ominus (R(27) \otimes a0))
              \ominus (((R(2) \otimes a2) \otimes a2) \otimes a2)) \oslash R(54))

----------------------------------------------------------------------------
(* src/src/analytical/cubic.rs *)

\* the branch d < 0, from c on
cubic_one_root_by_c(a3, a2, d0, c) ==
    Built(<<RNeg((a2 \oplus c) \oplus (d0 \oslash c)) \oslash (R(3) \otimes a3)>>)

\* the branch d < 0, from sqrt on
cubic_one_root_by_sqrt(a3, a2, d0, d1, sqrt) ==
    cubic_one_root_by_c(
      a3, a2, d0,
      RCbrt((IF RLt(d1, Zero) THEN d1 \ominus sqrt ELSE d1 \oplus sqrt) \oslash R(2)))

\* the branch d < 0: "one real root"
cubic_one_root(a3, a2, d, d0, d1) ==
    cubic_one_root_by_sqrt(a3, a2, d0, d1,
                           RSqrt(((RNeg(R(27)) \otimes a3) \otimes a3) \otimes d))

\* the branch d = 0: "multiple roots"
cubic_multiple_roots(a3, a2, a1, a0, d0) ==
    IF d0 = Zero
    THEN Built(<<RNeg(a2) \oslash (a3 \otimes R(3))>>)
    ELSE add_new_root(
           Built(<<(((R(9) \otimes a3) \otimes a0) \ominus (a2 \otimes a1))
                     \oslash (d0 \otimes R(2))>>),
           (((((R(4) \otimes a3) \otimes a2) \otimes a1)
               \ominus (((R(9) \otimes a3) \otimes a3) \otimes a0))
               \ominus ((a2 \otimes a2) \otimes a2))
             \oslash (a3 \otimes d0))

\* the real and the imaginary part of (c_real + i*c_img) * (e_real + i*e_img)
times_e_real(c_real, c_img, e_real, e_img) ==
    (c_real \otimes e_real) \ominus (c_img \otimes e_img)

times_e_img(c_real, c_img, e_real, e_img) ==
    (c_real \otimes e_img) \oplus (c_img \otimes e_real)

\* x1_real and x2_real, from c1 and c2
rotated_root(a3, a2, d0, c_real, c_img) ==
    RNeg((a2 \oplus c_real)
           \oplus ((d0 \otimes c_real)
                     \oslash ((c_real \otimes c_real) \oplus (c_img \otimes c_img))))
      \oslash (R(3) \otimes a3)

\* the three roots x0_real, x1_real, x2_real
cubic_x0_x1_x2(a3, a2, d0, c_module, c_real, c1_real, c1_img, c2_real, c2_img) ==
    add_new_root(
      add_new_root(
        Built(<<RNeg((a2 \oplus c_real)
                       \oplus ((d0 \otimes c_real) \oslash (c_module \otimes c_module)))
                  \oslash (R(3) \otimes a3)>>),
        rotated_root(a3, a2, d0, c1_real, c1_img)),
      rotated_root(a3, a2, d0, c2_real, c2_img))

\* c2 = c1 * e
cubic_by_c1(a3, a2, d0, c_module, c_real, e_real, e_img, c1_real, c1_img) ==
    cubic_x0_x1_x2(a3, a2, d0, c_module, c_real, c1_real, c1_img,
                   times_e_real(c1_real, c1_img, e_real, e_img),
                   times_e_img(c1_real, c1_img, e_real, e_img))

\* c1 = c * e
cubic_by_e(a3, a2, d0, c_module, c_real, c_img, e_real, e_img) ==
    cubic_by_c1(a3, a2, d0, c_module, c_real, e_real, e_img,
                times_e_real(c_real, c_img, e_real, e_img),
                times_e_img(c_real, c_img, e_real, e_img))

\* the branch d > 0, from the cube root c = c_real + i*c_img on
cubic_rotations(a3, a2, d0, c_module, c_real, c_img) ==
    cubic_by_e(a3, a2, d0, c_module, c_real, c_img,
               RNeg(One) \oslash R(2), RSqrt(R(3)) \oslash R(2))

\* the branch d > 0, from the phase of c on
cubic_by_phase(a3, a2, d0, c_module, c_phase) ==
    cubic_rotations(a3, a2, d0, c_module,
                    c_module \otimes RCos(c_phase), c_module \otimes RSin(c_phase))

\* the branch d > 0, from c3_module on
cubic_by_c3_module(a3, a2, d0, c3_img, c3_real, c3_module) ==
    cubic_by_phase(a3, a2, d0, RCbrt(c3_module),
                   (R(2) \otimes RAtan(c3_img \oslash (c3_real \oplus c3_module)))
                     \oslash R(3))

\* the branch d > 0, from c3 on
cubic_by_c3(a3, a2, d0, c3_img, c3_real) ==
    cubic_by_c3_module(a3, a2, d0, c3_img, c3_real,
                       RSqrt((c3_img \otimes c3_img) \oplus (c3_real \otimes c3_real)))

\* the branch d > 0: "three real roots"
cubic_three_roots(a3, a2, d, d0, d1) ==
    cubic_by_c3(a3, a2, d0,
                RSqrt(((R(27) \otimes a3) \otimes a3) \otimes d) \oslash R(2),
                d1 \oslash R(2))

\* the three cases of d
cubic_by_discriminant(a3, a2, a1, a0, d, d0, d1) ==
    IF NotNum(d) \/ NotNum(d0) \/ NotNum(d1) THEN Inexact
    ELSE IF RLt(d, Zero) THEN cubic_one_root(a3, a2, d, d0, d1)
    ELSE IF d = Zero THEN cubic_multiple_roots(a3, a2, a1, a0, d0)
    ELSE cubic_three_roots(a3, a2, d, d0, d1)

\* the "standard case": a3 # 0, a2 # 0, a3 # 1
cubic_standard(a3, a2, a1, a0) ==
    cubic_by_discriminant(a3, a2, a1, a0,
        (((((((R(18) \otimes a3) \otimes a2) \otimes a1) \otimes a0)
            \ominus ((((R(4) \otimes a2) \otimes a2) \otimes a2) \otimes a0))
            \oplus (((a2 \otimes a2) \otimes a1) \otimes a1))
            \ominus ((((R(4) \otimes a3) \otimes a1) \otimes a1) \otimes a1))
            \ominus ((((R(27) \otimes a3) \otimes a3) \otimes a0) \otimes a0),
        (a2 \otimes a2) \ominus ((R(3) \otimes a3) \otimes a1),
        ((((R(2) \otimes a2) \otimes a2) \otimes a2)
            \ominus (((R(9) \otimes a3) \otimes a2) \otimes a1))
            \oplus (((R(27) \otimes a3) \otimes a3) \otimes a0))

\* find_roots_cubic handing a zero a3 to the biquadratic solver
cubic_zero_a3_biquadratic(a3, a2, a1, a0) ==
    IF NotNum(a3) \/ NotNum(a2) \/ NotNum(a1) \/ NotNum(a0)
    THEN Built(<<a3, a2, a1, a0>>)
    ELSE IF a3 = Zero THEN find_roots_biquadratic(a2, a1, a0)
    ELSE IF a2 = Zero
    THEN find_roots_cubic_depressed(a1 \oslash a3, a0 \oslash a3)
    ELSE IF a3 = One THEN find_roots_cubic_normalized(a2, a1, a0)
    ELSE cubic_standard(a3, a2, a1, a0)

find_roots_cubic(a3, a2, a1, a0) ==
    IF NotNum(a3) \/ NotNum(a2) \/ NotNum(a1) \/ NotNum(a0)
    THEN Built(<<a3, a2, a1, a0>>)
    ELSE IF a3 = Zero THEN find_roots_quadratic(a2, a1, a0)
    ELSE IF a2 = Zero
    THEN find_roots_cubic_depressed(a1 \oslash a3, a0 \oslash a3)
    ELSE IF a3 = One THEN find_roots_cubic_normalized(a2, a1, a0)
    ELSE cubic_standard(a3, a2, a1, a0)

----------------------------------------------------------------------------
(* src/src/analytical/quartic_depressed.rs *)

\* roots = roots.add_new_root(xs[i]) for i, i + 1, ...
RECURSIVE AddAll(_, _, _)
AddAll(rts, xs, i) ==
    IF i > Len(xs) THEN rts ELSE AddAll(add_new_root(rts, xs[i]), xs, i + 1)

\* "for x in ... { roots = roots.add_new_root(*x) }"
add_all_roots(rts, xs) == IF ~IsRoots(xs) THEN xs ELSE AddAll(rts, xs, 1)

\* the branch _a2_plus_2y > 0: the roots of the two quadratics
depressed_two_quadratics(a2, a1_div_2, y, sqrt_a2_plus_2y) ==
    add_all_roots(
      find_roots_quadratic(One, sqrt_a2_plus_2y,
                           (a2 \oplus y) \ominus (a1_div_2 \oslash sqrt_a2_plus_2y)),
      find_roots_quadratic(One, RNeg(sqrt_a2_plus_2y),
                           (a2 \oplus y) \oplus (a1_div_2 \oslash sqrt_a2_plus_2y)))

depressed_by_a2_plus_2y(a2, a1_div_2, y, a2_plus_2y) ==
    IF NotNum(a2_plus_2y) THEN Inexact
    ELSE IF RGt(a2_plus_2y, Zero)
    THEN depressed_two_quadratics(a2, a1_div_2, y, RSqrt(a2_plus_2y))
    ELSE No

\* a variant that takes the first root of the auxiliary cubic
depressed_by_first_root(a2, a1_div_2, cubic) ==
    IF ~IsRoots(cubic) THEN cubic
    ELSE depressed_by_a2_plus_2y(a2, a1_div_2, cubic[1],
                                 a2 \oplus (Two \otimes cubic[1]))

\* "The last root is the maximal one."
depressed_by_last_root(a2, a1_div_2, cubic) ==
    IF ~IsRoots(cubic) THEN cubic
    ELSE depressed_by_a2_plus_2y(a2, a1_div_2, cubic[Len(cubic)],
                                 a2 \oplus (Two \otimes cubic[Len(cubic)]))

\* the auxiliary cubic with the coefficients (b2, b1, b0)
depressed_auxiliary(a2, a0, a2_pow_2, a1_div_2) ==
    depressed_by_last_root(
      a2, a1_div_2,
      find_roots_cubic_normalized(
        (a2 \otimes Five) \oslash Two,
        (Two \otimes a2_pow_2) \ominus a0,
        (((a2_pow_2 \otimes a2) \ominus (a2 \otimes a0))
           \ominus (a1_div_2 \otimes a1_div_2)) \oslash Two))

\* the branch a1 # 0, a0 # 0
depressed_by_auxiliary_cubic(a2, a1, a0) ==
    depressed_auxiliary(a2, a0, a2 \otimes a2, a1 \oslash Two)

find_roots_quartic_depressed(a2, a1, a0) ==
    IF NotNum(a2) \/ NotNum(a1) \/ NotNum(a0) THEN Built(<<a2, a1, a0>>)
    ELSE IF a1 = Zero THEN find_roots_biquadratic(One, a2, a0)
    ELSE IF a0 = Zero
    THEN add_new_root(find_roots_cubic_normalized(Zero, a2, a1), Zero)
    ELSE depressed_by_auxiliary_cubic(a2, a1, a0)

----------------------------------------------------------------------------
(* src/src/analytical/quartic.rs *)

\* "for y in ... { roots = roots.add_new_root(*y - a3 / (_4 * a4)) }"
shifted_roots(depressed, shift) ==
    IF ~IsRoots(depressed) THEN depressed
    ELSE AddAll(No, [i \in 1 .. Len(depressed) |-> depressed[i] \ominus shift], 1)

\* the depressed quartic y^4 + p*y^2 + q*y + r, from a4_pow_2 on
via_depressed_by_a4_pow_2(a4, a3, a2, a1, a0, pp, rr, dd, a4_pow_2) ==
    shifted_roots(
      find_roots_quartic_depressed(
        pp \oslash (R(8) \otimes a4_pow_2),
        rr \oslash (R(8) \otimes (a4_pow_2 \otimes a4)),
        (dd \oplus ((R(16) \otimes a4_pow_2)
                      \otimes ((((R(12) \otimes a0) \otimes a4)
                                  \ominus ((R(3) \otimes a1) \otimes a3))
                                  \oplus (a2 \otimes a2))))
          \oslash (R(256) \otimes (a4_pow_2 \otimes a4_pow_2))),
      a3 \oslash (R(4) \otimes a4))

find_roots_via_depressed_quartic(a4, a3, a2, a1, a0, pp, rr, dd) ==
    via_depressed_by_a4_pow_2(a4, a3, a2, a1, a0, pp, rr, dd, a4 \otimes a4)

\* the branch triple_root, from x0 on
\* a variant that returns the triple root alone
quartic_triple_root_alone(a4, a3, x0) == Built(<<x0>>)

quartic_triple_root(a4, a3, x0) ==
    add_new_root(Built(<<x0>>), RNeg((a3 \oslash a4) \oplus (R(3) \otimes x0)))

\* x0 of the branch triple_root
quartic_x0(a4, a3, a2, a1, a0) ==
    ((M4(RNeg(R(72)), a4, a4, a0) \oplus M4(R(10), a4, a2, a2))
       \ominus M4(R(3), a3, a3, a2))
      \oslash (R(9) \otimes ((M4(R(8), a4, a4, a1) \ominus M4(R(4), a4, a3, a2))
                               \oplus M3(a3, a3, a3)))

\* a variant without the case quadruple_root
quartic_double_root_no_quadruple(a4, a3, a2, a1, a0, pp, rr, delta0, dd) ==
    IF delta0 = Zero
    THEN quartic_triple_root(a4, a3, quartic_x0(a4, a3, a2, a1, a0))
    ELSE IF dd = Zero /\ RGt(pp, Zero) /\ rr = Zero
    THEN No
    ELSE find_roots_via_depressed_quartic(a4, a3, a2, a1, a0, pp, rr, dd)

\* a variant whose quadruple_root does not require triple_root
quartic_double_root_quadruple_by_dd(a4, a3, a2, a1, a0, pp, rr, delta0, dd) ==
    IF dd = Zero
    THEN Built(<<RNeg(a3) \oslash (R(4) \otimes a4)>>)
    ELSE IF delta0 = Zero
    THEN quartic_triple_root(a4, a3, quartic_x0(a4, a3, a2, a1, a0))
    ELSE find_roots_via_depressed_quartic(a4, a3, a2, a1, a0, pp, rr, dd)

\* the branch double_root (discriminant = 0)
quartic_double_root(a4, a3, a2, a1, a0, pp, rr, delta0, dd) ==
    IF delta0 = Zero /\ dd = Zero
    THEN Built(<<RNeg(a3) \oslash (R(4) \otimes a4)>>)
    ELSE IF delta0 = Zero
    THEN quartic_triple_root(a4, a3, quartic_x0(a4, a3, a2, a1, a0))
    ELSE IF dd = Zero /\ RGt(pp, Zero) /\ rr = Zero
    THEN No
    ELSE find_roots_via_depressed_quartic(a4, a3, a2, a1, a0, pp, rr, dd)

\* "Handle special cases", then the depressed quartic
quartic_special_cases(a4, a3, a2, a1, a0, discriminant, pp, rr, delta0, dd) ==
    IF NotNum(discriminant) \/ NotNum(pp) \/ NotNum(rr) \/ NotNum(delta0) \/ NotNum(dd)
    THEN Inexact
    ELSE IF discriminant = Zero
    THEN quartic_double_root(a4, a3, a2, a1, a0, pp, rr, delta0, dd)
    ELSE IF RGt(pp, Zero) \/ RGt(dd, Zero)
    THEN No
    ELSE find_roots_via_depressed_quartic(a4, a3, a2, a1, a0, pp, rr, dd)

\* the discriminant, its four summands in the order of the source
quartic_discriminant(a4, a3, a2, a1, a0) ==
    (((M3(a4, a0, a4)
         \otimes (M4(R(256), a4, a0, a0)
                    \oplus (a1 \otimes (M3(R(144), a2, a1) \ominus M3(R(192), a3, a0)))))
      \oplus
      (M4(a4, a0, a2, a2)
         \otimes ((M3(R(16), a2, a2) \ominus M3(R(80), a3, a1)) \ominus M3(R(128), a4, a0))))
      \oplus
      ((a3 \otimes a3)
         \otimes (((a4 \otimes a0) \otimes (M3(R(144), a2, a0) \ominus M3(R(6), a1, a1)))
                    \oplus ((a0 \otimes ((M4(R(18), a3, a2, a1) \ominus M4(R(27), a3, a3, a0))
                                           \ominus M4(R(4), a2, a2, a2)))
                              \oplus ((a1 \otimes a1)
                                        \otimes ((a2 \otimes a2) \ominus M3(R(4), a3, a1)))))))
      \oplus
      (M3(a4, a1, a1)
         \otimes ((M4(R(18), a3, a2, a1) \ominus M4(R(27), a4, a1, a1))
                    \ominus M4(R(4), a2, a2, a2)))

quartic_pp(a4, a3, a2) == M3(R(8), a4, a2) \ominus M3(R(3), a3, a3)

quartic_rr(a4, a3, a2, a1) ==
    (M3(a3, a3, a3) \oplus M4(R(8), a4, a4, a1)) \ominus M4(R(4), a4, a3, a2)

quartic_delta0(a4, a3, a2, a1, a0) ==
    ((a2 \otimes a2) \ominus M3(R(3), a3, a1)) \oplus M3(R(12), a4, a0)

quartic_dd(a4, a3, a2, a1, a0) ==
    (((M5(R(64), a4, a4, a4, a0) \ominus M5(R(16), a4, a4, a2, a2))
        \oplus M5(R(16), a4, a3, a3, a2))
        \ominus M5(R(16), a4, a4, a3, a1))
        \ominus M5(R(3), a3, a3, a3, a3)

\* the general case: a4 # 0, a0 # 0, not (a1 = 0 and a3 = 0)
quartic_by_discriminant(a4, a3, a2, a1, a0) ==
    quartic_special_cases(
      a4, a3, a2, a1, a0,
      quartic_discriminant(a4, a3, a2, a1, a0),
      quartic_pp(a4, a3, a2),
      quartic_rr(a4, a3, a2, a1),
      quartic_delta0(a4, a3, a2, a1, a0),
      quartic_dd(a4, a3, a2, a1, a0))

\* a variant that does not add the root 0 when a0 = 0
quartic_zero_a0_no_zero_root(a4, a3, a2, a1, a0) ==
    IF a4 = Zero THEN find_roots_cubic(a3, a2, a1, a0)
    ELSE IF a0 = Zero THEN find_roots_cubic(a4, a3, a2, a1)
    ELSE IF a1 = Zero /\ a3 = Zero THEN find_roots_biquadratic(a4, a2, a0)
    ELSE quartic_by_discriminant(a4, a3, a2, a1, a0)

find_roots_quartic(a4, a3, a2, a1, a0) ==
    IF a4 = Zero THEN find_roots_cubic(a3, a2, a1, a0)
    ELSE IF a0 = Zero THEN add_new_root(find_roots_cubic(a4, a3, a2, a1), Zero)
    ELSE IF a1 = Zero /\ a3 = Zero THEN find_roots_biquadratic(a4, a2, a0)
    ELSE quartic_by_discriminant(a4, a3, a2, a1, a0)

----------------------------------------------------------------------------
(* The callers: one call of one solver with coefficients from a bounded    *)
(* set, and a Roots value grown by add_new_root.                           *)

Coef(k) == {R(i) : i \in -k .. k}

\* integers and halves, as the roots and coefficients of quartics with
\* multiple roots
Halves(k) == {Norm(n, d) : n \in -k .. k, d \in 1 .. 2}

\* a*(x - r)^4
QuadrupleRoot(a, r) ==
    <<a, RNeg(M3(Four, a, r)), M4(R(6), a, r, r), RNeg(M5(Four, a, r, r, r)),
      M5(a, r, r, r, r)>>

\* a*(x - s)*(x - t)^3
TripleRoot(a, s, t) ==
    <<a,
      RNeg(a \otimes (s \oplus (Three \otimes t))),
      M3(Three, a, t \otimes (t \oplus s)),
      RNeg(M4(a, t, t, t \oplus (Three \otimes s))),
      M5(a, s, t, t, t)>>

\* a*(x^2 + b*x + c)^2
SquaredQuadratic(a, b, c) ==
    <<a, M3(Two, a, b), a \otimes ((b \otimes b) \oplus (Two \otimes c)),
      M4(Two, a, b, c), M3(a, c, c)>>

Leading == Coef(MaxLead) \ {Zero}

MultipleRootQuartics ==
    {QuadrupleRoot(a, r) : a \in Leading, r \in Halves(MaxRoot)}
      \cup {TripleRoot(a, st[1], st[2]) :
               a \in Leading, st \in Halves(MaxRoot) \X Halves(MaxRoot)}
      \cup {SquaredQuadratic(a, bc[1], bc[2]) :
               a \in Leading, bc \in Halves(MaxRoot) \X Halves(MaxRoot)}

Inputs(f) ==
    CASE f = "linear" -> Coef(MaxLin) \X Coef(MaxLin)
      [] f = "quadratic" -> Coef(MaxQuad) \X Coef(MaxQuad) \X Coef(MaxQuad)
      [] f = "cubic_depressed" -> Coef(MaxDep) \X Coef(MaxDep)
      [] f = "cubic_normalized" -> Coef(MaxNorm) \X Coef(MaxNorm) \X Coef(MaxNorm)
      [] f = "cubic" -> Coef(MaxCub) \X Coef(MaxCub) \X Coef(MaxCub) \X Coef(MaxCub)
      [] f = "biquadratic" -> Coef(MaxQuad) \X Coef(MaxQuad) \X Coef(MaxQuad)
      [] f = "quartic_depressed" -> Coef(MaxNorm) \X Coef(MaxNorm) \X Coef(MaxNorm)
      [] f = "quartic" ->
           (Coef(MaxQuart) \X Coef(MaxQuart) \X Coef(MaxQuart) \X Coef(MaxQuart)
              \X Coef(MaxQuart))
             \cup MultipleRootQuartics

\* the locals of a numerical routine that is not running
NoLocals == <<>>

\* a convergency no method of which has been called: the last iteration
\* number given to is_iteration_limit_reached, the number of calls of
\* is_iteration_limit_reached, and whether any method has been called
NotConsulted == [iter |-> 0, limit |-> 0, consulted |-> FALSE]

Solvers ==
    {"linear", "quadratic", "cubic_depressed", "cubic_normalized", "cubic",
     "biquadratic", "quartic_depressed", "quartic"}

Init ==
    /\ pc = "call"
    /\ fn \in Solvers
    /\ args \in Inputs(fn)
    /\ res = No
    /\ roots = No
    /\ old = No
    /\ new = Zero
    /\ loc = NoLocals
    /\ conv = NotConsulted

Return(r) ==
    /\ pc = "call"
    /\ pc' = "done"
    /\ res' = r
    /\ UNCHANGED <<fn, args, roots, old, new, loc, conv>>

CallLinear ==
    fn = "linear" /\ Return(find_roots_linear(args[1], args[2]))

CallQuadratic ==
    fn = "quadratic" /\ Return(find_roots_quadratic(args[1], args[2], args[3]))

CallCubicDepressed ==
    fn = "cubic_depressed" /\ Return(find_roots_cubic_depressed(args[1], args[2]))

CallCubicNormalized ==
    /\ fn = "cubic_normalized"
    /\ Return(find_roots_cubic_normalized(args[1], args[2], args[3]))

CallCubic ==
    fn = "cubic" /\ Return(find_roots_cubic(args[1], args[2], args[3], args[4]))

CallBiquadratic ==
    fn = "biquadratic" /\ Return(find_roots_biquadratic(args[1], args[2], args[3]))

CallQuarticDepressed ==
    /\ fn = "quartic_depressed"
    /\ Return(find_roots_quartic_depressed(args[1], args[2], args[3]))

CallQuartic ==
    /\ fn = "quartic"
    /\ Return(find_roots_quartic(args[1], args[2], args[3], args[4], args[5]))

Next ==
    \/ CallLinear
    \/ CallQuadratic
    \/ CallCubicDepressed
    \/ CallCubicNormalized
    \/ CallCubic
    \/ CallBiquadratic
    \/ CallQuarticDepressed
    \/ CallQuartic

Spec == Init /\ [][Next]_vars

----------------------------------------------------------------------------
(* A Roots value grown by add_new_root, as in test_roots. *)

Vals == Coef(MaxVal)

InitRoots ==
    /\ pc = "start"
    /\ fn = "add_new_root"
    /\ args = <<>>
    /\ res = No
    /\ roots \in {No} \cup {<<v>> : v \in Vals}
    /\ old = No
    /\ new = Zero
    /\ loc = NoLocals
    /\ conv = NotConsulted

AddNewRoot(x) ==
    /\ roots # Panic
    /\ pc' = "added"
    /\ old' = roots
    /\ new' = x
    /\ roots' = add_new_root(roots, x)
    /\ UNCHANGED <<fn, args, res, loc, conv>>

NextRoots == \E x \in Vals : AddNewRoot(x)

SpecRoots == InitRoots /\ [][NextRoots]_vars

----------------------------------------------------------------------------
(* The solvers' call graph with the arithmetic left open: every computed   *)
(* root is any value of Vals, every Roots is built as the code builds it   *)
(* (an array literal, or add_new_root on the result of another solver).    *)

AnyOne == {<<x>> : x \in Vals}

\* Roots::One([x]).add_new_root(y)
AnyOneAdded == {add_new_root(<<x>>, y) : x \in Vals, y \in Vals}

\* Roots::One([x]).add_new_root(y).add_new_root(z)
AnyOneAddedTwice == {add_new_root(r, z) : r \in AnyOneAdded, z \in Vals}

AnyLinear == {No} \cup AnyOne

\* No, One([x]) or Two([x1, x2]), or the linear solver's result
AnyQuadratic == AnyLinear \cup {<<x, y>> : x \in Vals, y \in Vals}

\* the quadratic's result, that result with 0 added, or one of the array
\* literals of the match
AnyBiquadratic ==
    AnyQuadratic
      \cup {add_sorted(q, Zero) : q \in AnyQuadratic}
      \cup {<<Zero>>, No}
      \cup {<<RNeg(x), x>> : x \in Vals}
      \cup {<<RNeg(x), Zero, x>> : x \in Vals}
      \cup {<<RNeg(y), RNeg(x), x, y>> : x \in Vals, y \in Vals}

AnyCubicDepressed ==
    AnyOne
      \cup {add_new_root(q, Zero) : q \in AnyQuadratic}
      \cup AnyOneAddedTwice
      \cup AnyOneAdded

AnyCubicNormalized == AnyOneAddedTwice \cup AnyOne \cup AnyOneAdded

AnyCubic ==
    AnyQuadratic \cup AnyCubicDepressed \cup AnyCubicNormalized
      \cup AnyOne \cup AnyOneAdded \cup AnyOneAddedTwice

\* the roots of the first quadratic with those of the second added one by one
AnyQuarticDepressed ==
    AnyBiquadratic
      \cup {add_new_root(c, Zero) : c \in AnyCubicNormalized}
      \cup {add_all_roots(q[1], q[2]) : q \in AnyQuadratic \X AnyQuadratic}
      \cup {No}

\* No with every root of the depressed quartic added, shifted
AnyViaDepressed ==
    {shifted_roots(d, shift) : d \in AnyQuarticDepressed, shift \in Vals}

AnyQuartic ==
    AnyCubic
      \cup {add_new_root(c, Zero) : c \in AnyCubic}
      \cup AnyBiquadratic
      \cup AnyOne \cup AnyOneAdded \cup {No}
      \cup AnyViaDepressed

AnyRoots(f) ==
    CASE f = "linear" -> AnyLinear
      [] f = "quadratic" -> AnyQuadratic
      [] f = "cubic_depressed" -> AnyCubicDepressed
      [] f = "cubic_normalized" -> AnyCubicNormalized
      [] f = "cubic" -> AnyCubic
      [] f = "biquadratic" -> AnyBiquadratic
      [] f = "quartic_depressed" -> AnyQuarticDepressed
      [] f = "quartic" -> AnyQuartic

InitCalls ==
    /\ pc = "call"
    /\ fn \in Solvers
    /\ args = <<>>
    /\ res = No
    /\ roots = No
    /\ old = No
    /\ new = Zero
    /\ loc = NoLocals
    /\ conv = NotConsulted

\* the solver f returns one of the Roots its code can build
CallAny(f) ==
    /\ fn = f
    /\ \E r \in AnyRoots(f) : Return(r)

NextCalls == \E f \in Solvers : CallAny(f)

SpecCalls == InitCalls /\ [][NextCalls]_vars

----------------------------------------------------------------------------
(* Properties of the analytical solvers. *)

Done == pc = "done"

\* the coefficients, highest power first, of the polynomial solver f is given
Poly(f, a) ==
    CASE f = "cubic_depressed" -> <<One, Zero, a[1], a[2]>>
      [] f = "cubic_normalized" -> <<One, a[1], a[2], a[3]>>
      [] f = "biquadratic" -> <<a[1], Zero, a[2], Zero, a[3]>>
      [] f = "quartic_depressed" -> <<One, Zero, a[1], a[2], a[3]>>
      [] OTHER -> a

RECURSIVE Horner(_, _, _, _)
Horner(c, x, i, acc) ==
    IF i > Len(c) THEN acc
    ELSE Horner(c, x, i + 1, (acc \otimes x) \oplus c[i])

\* the value of the polynomial with coefficients c at x
PolyAt(c, x) == Horner(c, x, 1, Zero)

IsZeroOf(c, x) == PolyAt(c, x) = Zero

Elems(r) == {r[i] : i \in 1 .. Len(r)}

StrictlyAscending(r) == \A i \in 1 .. Len(r) - 1 : RLt(r[i], r[i + 1])

\* C1: every value returned by an analytical solver is a zero of the
\* polynomial it was given (exactly zero where the square and cube roots of
\* the computation are exact).
RootValidity ==
    (Done /\ IsRoots(res)) => \A x \in Elems(res) : IsZeroOf(Poly(fn, args), x)

\* rational candidates for a zero of a polynomial with coefficients in
\* -MaxQuart .. MaxQuart
Candidates ==
    {Norm(n, d) : n \in -MaxQuart .. MaxQuart, d \in 1 .. MaxQuart}

\* C2: find_roots_quartic with a nonzero leading coefficient returns every
\* real root of the quartic; in particular it returns the empty set only when
\* the quartic has no real root.
QuarticReturnsAllRoots ==
    (Done /\ fn = "quartic" /\ args[1] # Zero /\ IsRoots(res))
        => \A x \in Candidates : IsZeroOf(Poly(fn, args), x) => x \in Elems(res)

\* C3: the roots returned by an analytical solver are in strictly ascending
\* order, with no value twice; this covers the array literals built by
\* find_roots_quadratic and find_roots_biquadratic.
AscendingOutput == (Done /\ IsRoots(res)) => StrictlyAscending(res)

\* the quadratic solver computed its two roots larger first and swapped them
\* (a2 > 0 > a0, a1 = 0, exact square root)
QuadraticSwapped ==
    /\ Done
    /\ fn = "quadratic"
    /\ RGt(args[1], Zero) /\ args[2] = Zero /\ RLt(args[3], Zero)
    /\ IsRoots(res) /\ Len(res) = 2

\* C4: a Roots that starts as No or One and grows by add_new_root with at
\* most four distinct values holds its values in strictly ascending order.
RootsInvariant == (roots # Panic) => (IsRoots(roots) /\ StrictlyAscending(roots))

\* the fourth distinct value was inserted between two stored ones
FourRootsInsertedInside ==
    /\ pc = "added"
    /\ Len(old) = 3 /\ Len(roots) = 4 /\ IsRoots(roots)
    /\ new = roots[2]

\* C5: add_new_root(x) returns the prior elements plus x: the Roots is
\* returned unchanged if x equals a stored element, otherwise every prior
\* element is kept, x is added and the count grows by exactly one.
AddNewRootElements ==
    (pc = "added" /\ roots # Panic) =>
        IF new \in Elems(old)
        THEN roots = old
        ELSE /\ Elems(roots) = Elems(old) \cup {new}
             /\ Len(roots) = Len(old) + 1

\* a value equal to a stored element of a three-element Roots was added
DuplicateAdded ==
    /\ pc = "added"
    /\ Len(old) = 3 /\ new \in Elems(old)
    /\ roots = old

\* the degree of the equation solver f is written for
Degree(f) ==
    CASE f = "linear" -> 1
      [] f = "quadratic" -> 2
      [] f \in {"cubic_depressed", "cubic_normalized", "cubic"} -> 3
      [] OTHER -> 4

\* C6: a solver for degree n never returns more than n roots, whatever the
\* leading coefficient.
DegreeCountBound == (Done /\ IsRoots(res)) => Len(res) <= Degree(fn)

\* a cubic with three roots or a quartic with four was solved
FullRootCount ==
    /\ Done /\ IsRoots(res)
    /\ fn \in {"cubic", "quartic"}
    /\ args[1] # Zero
    /\ Len(res) = Degree(fn)

\* C7: with a zero leading coefficient each solver returns what the solver of
\* the next lower degree returns on the remaining coefficients, whatever
\* these are.
DegenerateRouting ==
    Done =>
      /\ (fn = "quadratic" /\ args[1] = Zero)
            => res = find_roots_linear(args[2], args[3])
      /\ (fn = "cubic" /\ args[1] = Zero)
            => res = find_roots_quadratic(args[2], args[3], args[4])
      /\ (fn = "quartic" /\ args[1] = Zero)
            => res = find_roots_cubic(args[2], args[3], args[4], args[5])

\* a quartic whose three highest coefficients are zero was solved as a
\* linear equation
QuarticSolvedAsLinear ==
    /\ Done /\ fn = "quartic"
    /\ args[1] = Zero /\ args[2] = Zero /\ args[3] = Zero /\ args[4] # Zero
    /\ IsRoots(res) /\ Len(res) = 1

\* a1^2 - 4*a2*a0 for integer coefficients
IntDiscriminant(a) == a[2][1] * a[2][1] - 4 * a[1][1] * a[3][1]

\* C8: for a2 # 0 find_roots_quadratic returns no root if the discriminant
\* is negative, the one root -a1/(2*a2) if it is zero, and two roots, the
\* smaller first, if it is positive.
QuadraticByDiscriminant ==
    (Done /\ fn = "quadratic" /\ args[1] # Zero) =>
        LET D == IntDiscriminant(args)
        IN  /\ D < 0 => res = No
            /\ D = 0 => /\ IsRoots(res) /\ Len(res) = 1
                        /\ (Two \otimes args[1]) \otimes res[1] = RNeg(args[2])
            /\ D > 0 => \/ res = Inexact
                        \/ /\ IsRoots(res) /\ Len(res) = 2
                           /\ RLt(res[1], res[2])
                           /\ \A x \in Elems(res) : IsZeroOf(args, x)

\* a quadratic with a nonzero double root was solved
QuadraticDoubleRoot ==
    /\ Done /\ fn = "quadratic"
    /\ args[1] # Zero /\ args[2] # Zero
    /\ IntDiscriminant(args) = 0
    /\ Len(res) = 1

\* C9: find_roots_linear returns the one root 0 for a1 = 0 and a0 = 0, no
\* root for a1 = 0 and a0 # 0, and the one root -a0/a1 otherwise.
LinearTotal ==
    (Done /\ fn = "linear") =>
        IF args[1] = Zero
        THEN res = (IF args[2] = Zero THEN <<Zero>> ELSE No)
        ELSE /\ IsRoots(res) /\ Len(res) = 1
             /\ args[1] \otimes res[1] = RNeg(args[2])

\* the equation 0 = 0 was solved
LinearZeroEquation ==
    /\ Done /\ fn = "linear"
    /\ args[1] = Zero /\ args[2] = Zero
    /\ res = <<Zero>>

\* C10: find_roots_cubic with a3 # 0, find_roots_cubic_depressed and
\* find_roots_cubic_normalized never return the empty set.
CubicNeverEmpty ==
    (/\ Done
     /\ \/ fn = "cubic" /\ args[1] # Zero
        \/ fn \in {"cubic_depressed", "cubic_normalized"})
        => (res # No /\ res # Panic /\ res # DivByZero)

\* a depressed cubic x^3 + a1*x with a1 > 0 was solved: its quadratic factor
\* has no root and 0 is the one root
DepressedOnlyZeroRoot ==
    /\ Done /\ fn = "cubic_depressed"
    /\ RGt(args[1], Zero) /\ args[2] = Zero
    /\ res = <<Zero>>

\* the discriminant q^2/4 + p^3/27 of the depressed cubic x^3 + p*x + q
DepressedD(p, q) ==
    ((q \otimes q) \oslash Four) \oplus (M3(p, p, p) \oslash TwentySeven)

\* C11: find_roots_cubic_depressed(p, q) with p # 0, q # 0 and
\* q^2/4 + p^3/27 = 0 returns exactly two elements, the simple root and the
\* double root, and both are zeros of x^3 + p*x + q.
DepressedDoubleRoot ==
    (/\ Done /\ fn = "cubic_depressed"
     /\ args[1] # Zero /\ args[2] # Zero
     /\ DepressedD(args[1], args[2]) = Zero)
        => /\ IsRoots(res) /\ Len(res) = 2
           /\ \A x \in Elems(res) : IsZeroOf(Poly(fn, args), x)

\* the values y - a2/3 for y in the roots of the depressed cubic of
\* x^3 + a2*x^2 + a1*x + a0
NormalizedP(a2, a1) == a1 \ominus ((a2 \otimes a2) \oslash Three)

NormalizedQ(a2, a1, a0) ==
    (((Two \otimes M3(a2, a2, a2)) \oslash TwentySeven)
        \ominus ((a2 \otimes a1) \oslash Three)) \oplus a0

ShiftedDepressed(a2, a1, a0) ==
    shifted_roots(
        find_roots_cubic_depressed(NormalizedP(a2, a1), NormalizedQ(a2, a1, a0)),
        a2 \oslash Three)

\* C12: find_roots_cubic_normalized(a2, a1, a0) returns exactly the values
\* y - a2/3 for y in find_roots_cubic_depressed(p, q) with p = a1 - a2^2/3
\* and q = 2*a2^3/27 - a2*a1/3 + a0 (compared where both computations are
\* exact).
NormalizedIsShiftedDepressed ==
    (/\ Done /\ fn = "cubic_normalized"
     /\ IsRoots(res)
     /\ IsRoots(ShiftedDepressed(args[1], args[2], args[3])))
        => res = ShiftedDepressed(args[1], args[2], args[3])

\* C13: for a3 # 0, find_roots_cubic(a3, a2, a1, a0) returns the set
\* find_roots_cubic_normalized(a2/a3, a1/a3, a0/a3), whichever branch is
\* taken (compared where both computations are exact).
CubicIsNormalized ==
    (/\ Done /\ fn = "cubic" /\ args[1] # Zero
     /\ IsRoots(res)
     /\ IsRoots(find_roots_cubic_normalized(args[2] \oslash args[1],
            args[3] \oslash args[1], args[4] \oslash args[1])))
        => res = find_roots_cubic_normalized(args[2] \oslash args[1],
                    args[3] \oslash args[1], args[4] \oslash args[1])

\* C14: for a4 # 0, find_roots_biquadratic returns the two values
\* -sqrt(u) and sqrt(u) for each root u > 0 of a4*u^2 + a2*u + a0, the value
\* 0 if u = 0 is a root, and nothing for a negative u; the result is
\* symmetric about zero, also when a0 = 0.
BiquadraticBySquares ==
    (Done /\ fn = "biquadratic" /\ args[1] # Zero /\ IsRoots(res)) =>
        /\ IsRoots(find_roots_quadratic(args[1], args[2], args[3]))
        /\ \A x \in Elems(res) :
              /\ (x \otimes x)
                    \in Elems(find_roots_quadratic(args[1], args[2], args[3]))
              /\ RNeg(x) \in Elems(res)
        /\ \A u \in Elems(find_roots_quadratic(args[1], args[2], args[3])) :
              RGe(u, Zero) => \E x \in Elems(res) : x \otimes x = u

\* a biquadratic with a0 = 0 was solved: 0 and the two square roots of the
\* other root of the quadratic
BiquadraticZeroAndPair ==
    /\ Done /\ fn = "biquadratic"
    /\ args[1] # Zero /\ args[3] = Zero
    /\ IsRoots(res) /\ Len(res) = 3
    /\ res[2] = Zero /\ res[1] = RNeg(res[3])

\* a biquadratic whose quadratic has one negative and one positive root
BiquadraticOnePair ==
    /\ Done /\ fn = "biquadratic"
    /\ args[1] # Zero /\ args[3] # Zero
    /\ IsRoots(res) /\ Len(res) = 2
    /\ IsRoots(find_roots_quadratic(args[1], args[2], args[3]))
    /\ Len(find_roots_quadratic(args[1], args[2], args[3])) = 2

\* C15: find_roots_quartic with a4 # 0 and a0 = 0 returns the roots of
\* find_roots_cubic(a4, a3, a2, a1) with the root 0 inserted in order; with
\* a4 # 0, a0 # 0, a3 = 0 and a1 = 0 it returns
\* find_roots_biquadratic(a4, a2, a0).
QuarticFastPaths ==
    (Done /\ fn = "quartic" /\ args[1] # Zero) =>
        /\ args[5] = Zero =>
              /\ res = add_new_root(
                     find_roots_cubic(args[1], args[2], args[3], args[4]), Zero)
              /\ IsRoots(res) =>
                    /\ Elems(res)
                         = Elems(find_roots_cubic(args[1], args[2], args[3],
                                                  args[4])) \cup {Zero}
                    /\ StrictlyAscending(res)
        /\ (args[5] # Zero /\ args[2] = Zero /\ args[4] = Zero) =>
              res = find_roots_biquadratic(args[1], args[3], args[5])

\* a quartic with a0 = 0 and a1 # 0 was solved: 0 is not a root of the cubic
\* and was inserted among its roots
QuarticZeroRootInserted ==
    /\ Done /\ fn = "quartic"
    /\ args[1] # Zero /\ args[5] = Zero /\ args[4] # Zero
    /\ IsRoots(res) /\ Len(res) >= 3
    /\ Zero \in Elems(res)

\* the terms find_roots_quartic computes from the coefficients a
Discriminant(a) == quartic_discriminant(a[1], a[2], a[3], a[4], a[5])
PP(a) == quartic_pp(a[1], a[2], a[3])
RR(a) == quartic_rr(a[1], a[2], a[3], a[4])
Delta0(a) == quartic_delta0(a[1], a[2], a[3], a[4], a[5])
DD(a) == quartic_dd(a[1], a[2], a[3], a[4], a[5])

\* the general case of find_roots_quartic, with all terms in range
GeneralQuartic ==
    /\ fn = "quartic"
    /\ args[1] # Zero /\ args[5] # Zero
    /\ ~(args[4] = Zero /\ args[2] = Zero)
    /\ ~NotNum(Discriminant(args)) /\ ~NotNum(PP(args)) /\ ~NotNum(RR(args))
    /\ ~NotNum(Delta0(args)) /\ ~NotNum(DD(args))

\* C16: for a*(x - r)^4 with a # 0 and r # 0, find_roots_quartic takes the
\* branch discriminant = 0, delta0 = 0, dd = 0 and returns the one root
\* -a3/(4*a4) = r.
QuadrupleRootFound ==
    \A a \in Leading, r \in Halves(MaxRoot) \ {Zero} :
        (Done /\ args = QuadrupleRoot(a, r) /\ GeneralQuartic) =>
            /\ Discriminant(args) = Zero
            /\ Delta0(args) = Zero /\ DD(args) = Zero
            /\ res = <<r>>
            /\ RNeg(args[2]) \oslash (Four \otimes args[1]) = r

\* a quartic with a quadruple root that is not an integer was solved
QuadrupleRootSolved ==
    \E a \in Leading, r \in Halves(MaxRoot) \ {Zero} :
        /\ Done /\ args = QuadrupleRoot(a, r) /\ GeneralQuartic
        /\ r[2] = 2
        /\ res = <<r>>

\* C17: for a*(x - s)*(x - t)^3 with distinct non-zero s and t,
\* find_roots_quartic takes the branch discriminant = 0, delta0 = 0, dd # 0,
\* the denominator of x0 is not zero, and the result is {s, t} in ascending
\* order.
TripleRootFound ==
    \A a \in Leading, s \in Halves(MaxRoot) \ {Zero},
       t \in Halves(MaxRoot) \ {Zero} :
        (Done /\ s # t /\ args = TripleRoot(a, s, t) /\ GeneralQuartic) =>
            /\ Discriminant(args) = Zero
            /\ Delta0(args) = Zero /\ DD(args) # Zero
            /\ RR(args) # Zero
            /\ quartic_x0(args[1], args[2], args[3], args[4], args[5]) = t
            /\ res = (IF RLt(s, t) THEN <<s, t>> ELSE <<t, s>>)

\* a quartic with a triple root greater than its simple root was solved
TripleRootSolved ==
    \E a \in Leading, s \in Halves(MaxRoot) \ {Zero},
       t \in Halves(MaxRoot) \ {Zero} :
        /\ Done /\ args = TripleRoot(a, s, t) /\ GeneralQuartic
        /\ RLt(s, t)
        /\ res = <<s, t>>

\* b and c of the quartic a4*(x^2 + b*x + c)^2, from a4, a3 and a2
HalfB(a) == a[2] \oslash (Two \otimes a[1])
HalfC(a) == ((a[3] \oslash a[1]) \ominus (HalfB(a) \otimes HalfB(a))) \oslash Two

\* the quartic a is a4 times the square of a quadratic without real root
SquareOfRootlessQuadratic(a) ==
    /\ a[4] \oslash a[1] = M3(Two, HalfB(a), HalfC(a))
    /\ a[5] \oslash a[1] = HalfC(a) \otimes HalfC(a)
    /\ RLt(HalfB(a) \otimes HalfB(a), Four \otimes HalfC(a))

\* C18: in the general case with discriminant = 0, delta0 # 0, dd = 0,
\* pp > 0 and rr = 0, find_roots_quartic returns the empty set, and the
\* quartic has no real root: it is a4 times the square of a quadratic with
\* a negative discriminant.
NoRootsOfSquaredQuadratic ==
    (/\ Done /\ GeneralQuartic
     /\ Discriminant(args) = Zero /\ Delta0(args) # Zero
     /\ DD(args) = Zero /\ RGt(PP(args), Zero) /\ RR(args) = Zero)
        => /\ res = No
           /\ SquareOfRootlessQuadratic(args)
           /\ \A x \in Halves(2 * MaxRoot) : ~IsZeroOf(args, x)

\* the square of a quadratic with a negative discriminant was solved, its
\* constant coefficient not an integer
SquaredQuadraticSolved ==
    /\ Done /\ GeneralQuartic
    /\ Discriminant(args) = Zero /\ Delta0(args) # Zero
    /\ DD(args) = Zero /\ RGt(PP(args), Zero) /\ RR(args) = Zero
    /\ args[5][2] # 1
    /\ res = No

\* what find_roots_via_depressed_quartic returns for the coefficients a
ViaDepressed(a) ==
    find_roots_via_depressed_quartic(a[1], a[2], a[3], a[4], a[5],
                                     PP(a), RR(a), DD(a))

\* one of the three special sub-cases of discriminant = 0
SpecialSubCase(a) ==
    /\ Discriminant(a) = Zero
    /\ \/ Delta0(a) = Zero
       \/ DD(a) = Zero /\ RGt(PP(a), Zero) /\ RR(a) = Zero

\* C19: in every remaining case of the general quartic (discriminant = 0
\* outside the three special sub-cases, or any discriminant # 0 whatever the
\* signs of pp and dd) the result is that of the depressed quartic solver,
\* each root shifted by -a3/(4*a4); the empty set is never returned without
\* running the depressed solver (compared where the depressed solver's
\* result is exact).
RemainingCasesViaDepressed ==
    (/\ Done /\ GeneralQuartic
     /\ ~SpecialSubCase(args)
     /\ IsRoots(ViaDepressed(args)))
        => res = ViaDepressed(args)

\* C20: add_new_root on a Roots::Four with a value equal to none of the four
\* stored ones panics; with a value equal to a stored one it returns the
\* Roots unchanged.
FourRootsCapacity ==
    (pc = "added" /\ IsRoots(old) /\ Len(old) = 4) =>
        IF new \in Elems(old) THEN roots = old ELSE roots = Panic

\* a fifth distinct value was added to a Roots::Four
FifthRootPanicked ==
    /\ pc = "added"
    /\ IsRoots(old) /\ Len(old) = 4
    /\ new \notin Elems(old)
    /\ roots = Panic

\* C21: no call of an analytical solver reaches the capacity panic of
\* add_new_root, whatever values the arithmetic produces: every solver
\* returns a Roots value.
SolversNeverPanic == Done => (res # Panic /\ IsRoots(res))

\* a quartic solver collected four roots with add_new_root (the result is
\* not one of the symmetric array literals of the biquadratic solver)
FourRootsCollected ==
    /\ Done /\ fn \in {"quartic", "quartic_depressed"}
    /\ IsRoots(res) /\ Len(res) = 4
    /\ res[1] # RNeg(res[4])

\* the auxiliary cubic y^3 + (5/2)*a2*y^2 + (2*a2^2 - a0)*y
\* + (a2^3/2 - a2*a0/2 - a1^2/8) of the depressed quartic a = (a2, a1, a0)
AuxiliaryCubic(a) ==
    <<One,
      (Five \otimes a[1]) \oslash Two,
      (Two \otimes (a[1] \otimes a[1])) \ominus a[3],
      ((M3(a[1], a[1], a[1]) \oslash Two) \ominus ((a[1] \otimes a[3]) \oslash Two))
         \ominus ((a[2] \otimes a[2]) \oslash R(8))>>

AuxiliaryRoots(a) ==
    find_roots_cubic_normalized(AuxiliaryCubic(a)[2], AuxiliaryCubic(a)[3],
                                AuxiliaryCubic(a)[4])

\* y0, the last element of the auxiliary cubic's roots
LastAuxiliaryRoot(a) == AuxiliaryRoots(a)[Len(AuxiliaryRoots(a))]

\* the monic cubic c is positive to the right of its root y: the quotient
\* y^2 + b*y + d of c by (x - y) has no root greater than y
NoRootAbove(c, y) ==
    LET b == c[2] \oplus y
        d == c[3] \oplus (y \otimes b)
        disc == (b \otimes b) \ominus (Four \otimes d)
        h == (Two \otimes y) \oplus b
    IN  \/ RLt(disc, Zero)
        \/ RGe(h, Zero) /\ RGe(h \otimes h, disc)

\* the two quadratics x^2 + s*x + qa and x^2 - s*x + qb as <<s, qa, qb>>
FerrariFactors(a, y, s) ==
    <<s,
      (a[1] \oplus y) \ominus (a[2] \oslash (Two \otimes s)),
      (a[1] \oplus y) \oplus (a[2] \oslash (Two \otimes s))>>

\* (x^2 + s*x + qa)*(x^2 - s*x + qb) = x^4 + a2*x^2 + a1*x + a0
ProductIsQuartic(a, f) ==
    /\ ((f[2] \oplus f[3]) \ominus (f[1] \otimes f[1])) = a[1]
    /\ f[1] \otimes (f[3] \ominus f[2]) = a[2]
    /\ f[2] \otimes f[3] = a[3]

\* C25: for a1 # 0 and a0 # 0, find_roots_quartic_depressed takes the
\* largest root y0 of the auxiliary cubic, the last element of the cubic
\* solver's result; if a2 + 2*y0 > 0 it returns the union of the roots of
\* x^2 + s*x + (a2 + y0 - a1/(2s)) and x^2 - s*x + (a2 + y0 + a1/(2s)) with
\* s = sqrt(a2 + 2*y0), whose product is the quartic; otherwise it returns
\* the empty set (checked where the cubic's roots and s are exact).
DepressedByLargestAuxiliaryRoot ==
    (/\ Done /\ fn = "quartic_depressed"
     /\ args[2] # Zero /\ args[3] # Zero
     /\ IsRoots(AuxiliaryRoots(args))) =>
        LET y0 == LastAuxiliaryRoot(args)
            s == RSqrt(args[1] \oplus (Two \otimes y0))
            f == FerrariFactors(args, y0, s)
        IN  /\ IsZeroOf(AuxiliaryCubic(args), y0)
            /\ NoRootAbove(AuxiliaryCubic(args), y0)
            /\ IF RGt(args[1] \oplus (Two \otimes y0), Zero)
               THEN IsRoots(res) =>
                      /\ ProductIsQuartic(args, f)
                      /\ IsRoots(find_roots_quadratic(One, f[1], f[2]))
                      /\ IsRoots(find_roots_quadratic(One, RNeg(f[1]), f[3]))
                      /\ Elems(res)
                           = Elems(find_roots_quadratic(One, f[1], f[2]))
                               \cup Elems(find_roots_quadratic(One, RNeg(f[1]), f[3]))
                      /\ StrictlyAscending(res)
               ELSE res = No

\* a depressed quartic with a1 # 0 and a0 # 0 was solved whose auxiliary
\* cubic has two roots: the larger one was used and the two quadratics gave
\* a root
DepressedQuarticFactored ==
    /\ Done /\ fn = "quartic_depressed"
    /\ args[2] # Zero /\ args[3] # Zero
    /\ IsRoots(AuxiliaryRoots(args)) /\ Len(AuxiliaryRoots(args)) = 2
    /\ RGt(args[1] \oplus (Two \otimes LastAuxiliaryRoot(args)), Zero)
    /\ IsRoots(res) /\ Len(res) >= 1

\* sqrt(D) for the quadratic a = (a2, a1, a0)
SqrtD(a) == RSqrt((a[2] \otimes a[2]) \ominus M3(Four, a[1], a[3]))

\* (-a1 - sqrt(D))/(2*a2) and (-a1 + sqrt(D))/(2*a2)
FormulaRoots(a) ==
    {(RNeg(a[2]) \ominus SqrtD(a)) \oslash (Two \otimes a[1]),
     (RNeg(a[2]) \oplus SqrtD(a)) \oslash (Two \otimes a[1])}

\* the divisor-selection branch find_roots_quadratic takes: 1 for 2*a0 over
\* same_sign and diff_sign, 2 for 2*a0/same_sign and same_sign/(2*a2), 3 for
\* diff_sign and same_sign over 2*a2
DivisorBranch(a) ==
    IF RGt(RAbs(a[2]) \oplus SqrtD(a), RAbs(Two \otimes a[1]))
    THEN IF RGt(RAbs(RAbs(a[2]) \ominus SqrtD(a)), RAbs(Two \otimes a[1]))
         THEN 1 ELSE 2
    ELSE 3

\* C26: for a2 # 0 and D > 0, whichever divisor-selection branch
\* find_roots_quadratic takes, the two values returned are
\* (-a1 - sqrt(D))/(2*a2) and (-a1 + sqrt(D))/(2*a2), and no branch divides
\* by zero (checked where sqrt(D) is rational).
QuadraticBranchesAgree ==
    (/\ Done /\ fn = "quadratic" /\ args[1] # Zero
     /\ IntDiscriminant(args) > 0) =>
        /\ res # DivByZero
        /\ \A x \in Elems(res) : x # DivZero
        /\ ~NotNum(SqrtD(args)) =>
              /\ IsRoots(res) /\ Len(res) = 2
              /\ Elems(res) = FormulaRoots(args)

\* the branch that avoids diff_sign was taken with diff_sign = 0
SmallestDivisorAvoided ==
    /\ Done /\ fn = "quadratic" /\ args[1] # Zero
    /\ IntDiscriminant(args) > 0 /\ ~NotNum(SqrtD(args))
    /\ DivisorBranch(args) = 2
    /\ args[3] = Zero
    /\ IsRoots(res) /\ Len(res) = 2

\* 2*a2 was the smallest divisor and was not used
BothDivisorsSmall ==
    /\ Done /\ fn = "quadratic" /\ args[1] # Zero
    /\ IntDiscriminant(args) > 0 /\ ~NotNum(SqrtD(args))
    /\ DivisorBranch(args) = 1
    /\ IsRoots(res) /\ Len(res) = 2

\* 2*a2 was the greatest divisor and was used
GreatestDivisorUsed ==
    /\ Done /\ fn = "quadratic" /\ args[1] # Zero
    /\ IntDiscriminant(args) > 0 /\ ~NotNum(SqrtD(args))
    /\ DivisorBranch(args) = 3
    /\ IsRoots(res) /\ Len(res) = 2

----------------------------------------------------------------------------
(* Polynomials of any degree: src/src/numerical/polynom.rs.  A normalized  *)
(* polynom is the sequence of its coefficients below the leading 1,        *)
(* highest power first.  A Sample is <<x, y>>; a SearchInterval is         *)
(* <<"Whole">>, <<"First", sample>>, <<"Last", sample>> or                 *)
(* <<"Middle", begin, end>>.  Where the exact arithmetic ends the result   *)
(* is tagged "Inexact"; a panic is the result <<"Panic", <<>>>>.           *)

Ok(x) == <<"Ok", x>>
Err(e) == <<"Err", e>>

\* .as_ref().iter().map(|s| Ok(*s)).collect()
collect_ok(r) ==
    IF IsRoots(r) THEN [i \in 1 .. Len(r) |-> Ok(r[i])]
    ELSE <<<<"Inexact", r[1]>>>>

\* a variant that passes the coefficients lowest power first
sturm_quadratic_lowest_first(a) ==
    collect_ok(find_roots_quadratic(One, a[2], a[1]))

sturm_linear(a) == collect_ok(find_roots_linear(One, a[1]))

sturm_quadratic(a) == collect_ok(find_roots_quadratic(One, a[1], a[2]))

sturm_cubic(a) == collect_ok(find_roots_cubic(One, a[1], a[2], a[3]))

sturm_quartic(a) == collect_ok(find_roots_quartic(One, a[1], a[2], a[3], a[4]))

\* find_roots_sturm for a polynom of up to four coefficients
find_roots_sturm(a) ==
    CASE Len(a) = 0 -> <<>>
      [] Len(a) = 1 -> sturm_linear(a)
      [] Len(a) = 2 -> sturm_quadratic(a)
      [] Len(a) = 3 -> sturm_cubic(a)
      [] Len(a) = 4 -> sturm_quartic(a)

\* the loop of value, from the lowest coefficient polynom[i] up
RECURSIVE value_loop(_, _, _, _, _)
value_loop(polynom, x, i, result, xn) ==
    IF i = 0 THEN result \oplus xn
    ELSE value_loop(polynom, x, i - 1, result \oplus (polynom[i] \otimes xn),
                    xn \otimes x)

value(polynom, x) == value_loop(polynom, x, Len(polynom), Zero, One)

derivative_polynom(polynom) ==
    [i \in 1 .. Len(polynom) - 1 |->
        (polynom[i] \otimes R(Len(polynom) - i)) \oslash R(Len(polynom))]

\* the interval a transition at sample adds after previous_interval
interval_to_add(previous_interval, sample) ==
    CASE previous_interval[1] = "Whole" -> <<"First", sample>>
      [] previous_interval[1] = "First" ->
           <<"Middle", previous_interval[2], sample>>
      [] OTHER -> <<"Panic">>

\* the final step of find_root_intervals
final_step(result, previous_interval, symmetric_polynom) ==
    CASE previous_interval[1] = "Whole" ->
           Ok(IF symmetric_polynom THEN result ELSE Append(result, <<"Whole">>))
      [] previous_interval[1] = "First" ->
           Ok(IF RLt(previous_interval[2][1], Zero)
              THEN Append(result, <<"Last", previous_interval[2]>>)
              ELSE result)
      [] OTHER -> Err("NoBracketing")

transition(expect_positive, v) ==
    \/ expect_positive /\ RGe(v, Zero)
    \/ ~expect_positive /\ RLt(v, Zero)

\* the loop of find_root_intervals over derivative_roots[k ..]
RECURSIVE intervals_loop(_, _, _, _, _, _)
\* the body of the loop for the derivative root number k with polynom value v
intervals_step(polynom, derivative_roots, k, result, expect_positive, previous_interval, v) ==
    IF NotNum(v) THEN <<"Inexact", <<>>>>
    ELSE IF ~transition(expect_positive, v)
    THEN intervals_loop(polynom, derivative_roots, k + 1, result,
                        expect_positive,
                        <<"First", <<derivative_roots[k][2], v>>>>)
    ELSE IF interval_to_add(previous_interval,
                            <<derivative_roots[k][2], v>>) = <<"Panic">>
    THEN <<"Panic", <<>>>>
    ELSE intervals_loop(polynom, derivative_roots, k + 1,
                        Append(result,
                               interval_to_add(previous_interval,
                                               <<derivative_roots[k][2], v>>)),
                        ~expect_positive,
                        <<"First", <<derivative_roots[k][2], v>>>>)

intervals_loop(polynom, derivative_roots, k, result, expect_positive, previous_interval) ==
    IF k > Len(derivative_roots)
    THEN final_step(result, previous_interval, Len(polynom) % 2 = 0)
    ELSE IF derivative_roots[k][1] # "Ok"
    THEN intervals_loop(polynom, derivative_roots, k + 1, result,
                        expect_positive, previous_interval)
    ELSE intervals_step(polynom, derivative_roots, k, result, expect_positive,
                        previous_interval,
                        value(polynom, derivative_roots[k][2]))

\* a result of find_roots_sturm that holds Ok and Err values
IsSturm(r) == \A i \in 1 .. Len(r) : r[i][1] \in {"Ok", "Err"}

\* find_root_intervals, for a derivative of up to four coefficients
find_root_intervals(polynom, derivative) ==
    IF \E i \in 1 .. Len(derivative) : NotNum(derivative[i])
    THEN <<"Inexact", <<>>>>
    ELSE IF ~IsSturm(find_roots_sturm(derivative)) THEN <<"Inexact", <<>>>>
    ELSE intervals_loop(polynom, find_roots_sturm(derivative), 1, <<>>,
                        Len(polynom) % 2 # 0, <<"Whole">>)

\* coefficients of the polynoms given to find_roots_sturm
MaxSturm == 2
\* coefficients of the polynoms given to find_root_intervals
MaxQuint == 1

RECURSIVE Polynoms(_, _)
\* the polynoms of n coefficients from -k .. k
Polynoms(n, k) ==
    IF n = 0 THEN {<<>>}
    ELSE {Append(p, c) : p \in Polynoms(n - 1, k), c \in Coef(k)}

InitSturm ==
    /\ pc = "call"
    /\ fn \in {"sturm", "root_intervals"}
    /\ args \in IF fn = "sturm"
                THEN UNION {Polynoms(n, MaxSturm) : n \in 0 .. 4}
                ELSE Polynoms(5, MaxQuint)
    /\ res = No
    /\ roots = No
    /\ old = No
    /\ new = Zero
    /\ loc = NoLocals
    /\ conv = NotConsulted

\* find_roots_sturm on up to four coefficients: no use of the convergency
CallSturm ==
    fn = "sturm" /\ Return(find_roots_sturm(args))

\* what find_roots_sturm does first with five coefficients: the derivative
\* and find_root_intervals, which solves the derivative by find_roots_sturm
CallRootIntervals ==
    /\ fn = "root_intervals"
    /\ Return(find_root_intervals(args, derivative_polynom(args)))

NextSturm == CallSturm \/ CallRootIntervals

SpecSturm == InitSturm /\ [][NextSturm]_vars

----------------------------------------------------------------------------
(* Properties of find_roots_sturm. *)

\* the analytical solver of degree Len(a) with the leading coefficient 1
AnalyticalRoots(a) ==
    CASE Len(a) = 0 -> No
      [] Len(a) = 1 -> find_roots_linear(One, a[1])
      [] Len(a) = 2 -> find_roots_quadratic(One, a[1], a[2])
      [] Len(a) = 3 -> find_roots_cubic(One, a[1], a[2], a[3])
      [] Len(a) = 4 -> find_roots_quartic(One, a[1], a[2], a[3], a[4])

\* C22: find_roots_sturm on n <= 4 coefficients returns no root for n = 0
\* and otherwise exactly the roots of the analytical solver of degree n with
\* the leading coefficient 1, in the same order, each one Ok and none Err,
\* and the convergency has not been consulted (no interval was built).
SturmIsAnalytical ==
    (Done /\ fn = "sturm" /\ IsRoots(AnalyticalRoots(args))) =>
        /\ Len(res) = Len(AnalyticalRoots(args))
        /\ \A i \in 1 .. Len(res) : res[i] = <<"Ok", AnalyticalRoots(args)[i]>>
        /\ Len(args) = 0 => res = <<>>
        /\ conv = NotConsulted
        /\ loc = NoLocals

\* the source's test: x^2 - 2x + 1 has the one root 1
SturmOfSquare ==
    /\ Done /\ fn = "sturm"
    /\ args = <<R(-2), One>>
    /\ res = <<Ok(One)>>

\* the real roots of the derivative as find_root_intervals gets them
CriticalPoints(a) == find_roots_sturm(derivative_polynom(a))

\* the largest critical point x_last
LastCriticalPoint(a) == CriticalPoints(a)[Len(CriticalPoints(a))][2]

\* the interval list ends with [x .. +infinity]
EndsWithLast(intervals) ==
    /\ Len(intervals) > 0
    /\ intervals[Len(intervals)][1] = "Last"

\* C30: for a normalized polynomial of five coefficients find_root_intervals
\* never panics and ends its list with the interval [x_last, +infinity)
\* exactly when the polynomial is negative at the largest critical point.
FinalIntervalWhenNegative ==
    (Done /\ fn = "root_intervals" /\ res[1] # "Inexact") =>
        /\ res[1] = "Ok"
        /\ Len(CriticalPoints(args)) > 0 =>
              (EndsWithLast(res[2]) <=>
                  RLt(value(args, LastCriticalPoint(args)), Zero))

----------------------------------------------------------------------------
(* The iterative root finders: src/src/numerical.  The function f is one   *)
(* of a few monic polynomials, given as a normalized polynom and evaluated *)
(* exactly; where an iterate leaves the exact arithmetic the run ends with *)
(* a result tagged "Inexact".  A convergency is a record [kind, eps,       *)
(* max_iter]: a SimpleConvergency / DebugConvergency, or a bare float.     *)
(* The locals of the running routine are the record loc; its field iter is *)
(* the routine's own iteration counter.                                    *)

\* largest max_iter of a SimpleConvergency
MaxIter == 3
\* start points: -MaxPoint .. MaxPoint
MaxPoint == 2

\* x^2 - 1 (the function of the source's tests), x^2 + 1, x^3 - 2x + 2, x^3
Funcs == {<<Zero, R(-1)>>, <<Zero, One>>, <<Zero, R(-2), Two>>,
          <<Zero, Zero, Zero>>}

\* f(x)
apply(f, x) == value(f, x)

\* d(x), the derivative of f at x
apply_derivative(f, x) ==
    R(Len(f)) \otimes value(derivative_polynom(f), x)

\* the tolerances: 0, 1/2 and 3/2
Tolerances == {Zero, Norm(1, 2), Norm(3, 2)}

Convergencies ==
    {[kind |-> "simple", eps |-> e, max_iter |-> n] :
        e \in Tolerances, n \in 0 .. MaxIter}
      \cup {[kind |-> "float", eps |-> e, max_iter |-> 0] : e \in Tolerances}

\* a comparison with a value that is no number is false, as with a NaN
is_root_found(c, y) == ~NotNum(y) /\ RLt(RAbs(y), RAbs(c.eps))

is_converged(c, x1, x2) ==
    ~NotNum(x1 \ominus x2) /\ RLt(RAbs(x1 \ominus x2), RAbs(c.eps))

\* a variant that stops one iteration later
is_iteration_limit_reached_after(c, iter) ==
    IF c.kind = "float" THEN iter > 30 ELSE iter > c.max_iter

is_iteration_limit_reached(c, iter) ==
    IF c.kind = "float" THEN iter >= 30 ELSE iter >= c.max_iter

\* the outcome of a step: the next position, the locals, the result so far
\* and the number of calls of is_iteration_limit_reached
Outcome(p, l, r, n) == [pc |-> p, loc |-> l, res |-> r, limit |-> n]

\* return r
Finish(l, r) == Outcome("done", l, r, 0)

\* the run leaves the exact arithmetic
Leave(l) == Outcome("done", l, <<"Inexact", <<>>>>, 0)

\* the end of a loop body: the iteration limit, or the next iteration
Iterate(l, c) ==
    IF is_iteration_limit_reached(c, l.iter)
    THEN Outcome("done", l, Err("NoConvergency"), 1)
    ELSE Outcome("loop", l, No, 1)

\* enter the loop
Enter(l) == Outcome("loop", l, No, 0)

(* find_root_secant: src/src/numerical/secant.rs *)

secant_second(first, y1, second, y2, c) ==
    IF NotNum(y2) THEN Leave(NoLocals)
    ELSE IF is_root_found(c, y2) THEN Finish(NoLocals, Ok(second))
    ELSE Enter([x1 |-> first, y1 |-> y1, x2 |-> second, y2 |-> y2, iter |-> 0])

secant_first(first, y1, second, f, c) ==
    IF NotNum(y1) THEN Leave(NoLocals)
    ELSE IF is_root_found(c, y1) THEN Finish(NoLocals, Ok(first))
    ELSE secant_second(first, y1, second, apply(f, second), c)

\* up to the loop
secant_start(first, second, f, c) ==
    secant_first(first, apply(f, first), second, f, c)

secant_sample(l, c, x, y) ==
    IF NotNum(y) THEN Leave(l)
    ELSE IF is_root_found(c, y) THEN Finish(l, Ok(x))
    ELSE Iterate([x1 |-> l.x2, y1 |-> l.y2, x2 |-> x, y2 |-> y,
                  iter |-> l.iter + 1], c)

secant_point(l, f, c, x) ==
    IF NotNum(x) THEN Leave(l)
    ELSE IF is_converged(c, x, l.x2) THEN Finish(l, Ok(x))
    ELSE secant_sample(l, c, x, apply(f, x))

\* one pass of the loop
secant_loop(l, f, c) ==
    IF is_root_found(c, l.y1 \ominus l.y2) THEN Finish(l, Err("ZeroDerivative"))
    ELSE secant_point(l, f, c,
             l.x2 \ominus ((l.y2 \otimes (l.x2 \ominus l.x1))
                             \oslash (l.y2 \ominus l.y1)))

(* find_root_newton_raphson: src/src/numerical/newton_raphson.rs *)

newton_raphson_start(start) == Enter([x |-> start, iter |-> 0])

\* a variant that tests the derivative before the function value
newton_raphson_derivative_first(l, c, fx, dx) ==
    IF NotNum(fx) \/ NotNum(dx) THEN Leave(l)
    ELSE IF is_root_found(c, dx)
    THEN IF l.iter = 0
         THEN Enter([x |-> l.x \oplus One, iter |-> l.iter + 1])
         ELSE Finish(l, Err("ZeroDerivative"))
    ELSE IF is_root_found(c, fx) THEN Finish(l, Ok(l.x))
    ELSE IF NotNum(l.x \ominus (fx \oslash dx)) THEN Leave(l)
    ELSE IF is_converged(c, l.x, l.x \ominus (fx \oslash dx))
    THEN Finish(l, Ok(l.x \ominus (fx \oslash dx)))
    ELSE Iterate([x |-> l.x \ominus (fx \oslash dx), iter |-> l.iter + 1], c)

\* the loop body with f(x) = fx and d(x) = dx
newton_raphson_values(l, c, fx, dx) ==
    IF NotNum(fx) \/ NotNum(dx) THEN Leave(l)
    ELSE IF is_root_found(c, fx) THEN Finish(l, Ok(l.x))
    ELSE IF is_root_found(c, dx)
    THEN IF l.iter = 0
         THEN Enter([x |-> l.x \oplus One, iter |-> l.iter + 1])
         ELSE Finish(l, Err("ZeroDerivative"))
    ELSE IF NotNum(l.x \ominus (fx \oslash dx)) THEN Leave(l)
    ELSE IF is_converged(c, l.x, l.x \ominus (fx \oslash dx))
    THEN Finish(l, Ok(l.x \ominus (fx \oslash dx)))
    ELSE Iterate([x |-> l.x \ominus (fx \oslash dx), iter |-> l.iter + 1], c)

\* one pass of the loop
newton_raphson_loop(l, f, c) ==
    newton_raphson_values(l, c, apply(f, l.x), apply_derivative(f, l.x))

(* find_root_regula_falsi: src/src/numerical/regula_falsi.rs *)

\* x > 0; false for a value that is no number
RPos(x) == ~NotNum(x) /\ RGt(x, Zero)

\* x < 0; false for a value that is no number
RNegative(x) == ~NotNum(x) /\ RLt(x, Zero)

regula_falsi_second(x1, y1, x2, y2, c) ==
    IF NotNum(y2) \/ y1 \otimes y2 = NaR THEN Leave(NoLocals)
    ELSE IF is_root_found(c, y2) THEN Finish(NoLocals, Ok(x2))
    ELSE IF RPos(y1 \otimes y2) THEN Finish(NoLocals, Err("NoBracketing"))
    ELSE Enter([x1 |-> x1, y1 |-> y1, x2 |-> x2, y2 |-> y2,
                edge |-> "NoEdge", iter |-> 0])

regula_falsi_first(x1, y1, x2, f, c) ==
    IF NotNum(y1) THEN Leave(NoLocals)
    ELSE IF is_root_found(c, y1) THEN Finish(NoLocals, Ok(x1))
    ELSE regula_falsi_second(x1, y1, x2, apply(f, x2), c)

\* up to the loop
regula_falsi_start(a, b, f, c) ==
    IF RGt(a, b) THEN regula_falsi_first(b, apply(f, b), a, f, c)
    ELSE regula_falsi_first(a, apply(f, a), b, f, c)

\* y2 / 2 if the edge is hit again
halved(y, hit) == IF hit THEN y \oslash Two ELSE y

regula_falsi_sample(l, c, x, y) ==
    IF y = NaR \/ y \otimes l.y1 = NaR \/ y \otimes l.y2 = NaR THEN Leave(l)
    ELSE IF is_root_found(c, y) THEN Finish(l, Ok(x))
    ELSE IF RPos(y \otimes l.y1)
    THEN Iterate([x1 |-> x, y1 |-> y, x2 |-> l.x2,
                  y2 |-> halved(l.y2, l.edge = "EdgeX1"),
                  edge |-> "EdgeX1", iter |-> l.iter + 1], c)
    ELSE IF RPos(y \otimes l.y2)
    THEN Iterate([x1 |-> l.x1, y1 |-> halved(l.y1, l.edge = "EdgeX2"),
                  x2 |-> x, y2 |-> y,
                  edge |-> "EdgeX2", iter |-> l.iter + 1], c)
    ELSE Finish(l, Ok(x))

regula_falsi_point(l, f, c, x) ==
    IF x = NaR THEN Leave(l)
    ELSE IF is_converged(c, l.x1, l.x2) THEN Finish(l, Ok(x))
    ELSE regula_falsi_sample(l, c, x, apply(f, x))

\* one pass of the loop
regula_falsi_loop(l, f, c) ==
    regula_falsi_point(l, f, c,
        ((l.x1 \otimes l.y2) \ominus (l.x2 \otimes l.y1))
            \oslash (l.y2 \ominus l.y1))

(* Sample and Interval: src/src/numerical/mod.rs *)

is_bracketed_with(self, other) ==
    ~NotNum(self[2] \otimes other[2]) /\ ~RGt(self[2] \otimes other[2], Zero)

contains_x(begin, end, x) ==
    ~NotNum(x) /\ ~RGt(x, end[1]) /\ ~RLt(x, begin[1])

\* the two limits of the shift in middle, applied one after the other
limited_above(shift, high) == IF RGt(shift, high) THEN high ELSE shift

limited_below(shift, low) == IF RLt(shift, low) THEN low ELSE shift

limited(shift, low, high) ==
    IF NotNum(shift) \/ NotNum(low) \/ NotNum(high) THEN NaR
    ELSE limited_above(limited_below(shift, low), high)

\* Interval::middle
middle(begin, end) ==
    IF is_bracketed_with(begin, end) /\ begin[2] # end[2]
    THEN begin[1] \oplus
           limited((RNeg(begin[2]) \otimes (end[1] \ominus begin[1]))
                      \oslash (end[2] \ominus begin[2]),
                   (end[1] \ominus begin[1]) \oslash TwentySeven,
                   ((end[1] \ominus begin[1]) \otimes (TwentySeven \ominus One))
                      \oslash TwentySeven)
    ELSE (begin[1] \oplus end[1]) \oslash Two

(* find_root_inverse_quadratic: src/src/numerical/inverse_quadratic.rs *)

\* Parabola::from_three_points: the denominator and <<a, b, c>>
denom(p1, p2, p3) ==
    M3(p1[1] \ominus p2[1], p1[1] \ominus p3[1], p2[1] \ominus p3[1])

from_three_points(p1, p2, p3) ==
    << ((p3[1] \otimes (p2[2] \ominus p1[2]))
          \oplus (p2[1] \otimes (p1[2] \ominus p3[2]))
          \oplus (p1[1] \otimes (p3[2] \ominus p2[2])))
         \oslash denom(p1, p2, p3),
       (M3(p1[1], p1[1], p2[2] \ominus p3[2])
          \oplus M3(p3[1], p3[1], p1[2] \ominus p2[2])
          \oplus M3(p2[1], p2[1], p3[2] \ominus p1[2]))
         \oslash denom(p1, p2, p3),
       (M3(p2[1], p2[1], (p3[1] \otimes p1[2]) \ominus (p1[1] \otimes p3[2]))
          \oplus (p2[1] \otimes (M3(p1[1], p1[1], p3[2])
                                   \ominus M3(p3[1], p3[1], p1[2])))
          \oplus M4(p1[1], p3[1], p3[1] \ominus p1[1], p2[2]))
         \oslash denom(p1, p2, p3) >>

\* roots.iter().find(|x| interval.contains_x(x)), from position k on;
\* <<>> if there is none
RECURSIVE find_contained(_, _, _, _)
find_contained(roots_found, begin, end, k) ==
    IF k > Len(roots_found) THEN <<>>
    ELSE IF contains_x(begin, end, roots_found[k]) THEN <<roots_found[k]>>
    ELSE find_contained(roots_found, begin, end, k + 1)

\* the new approximation: a root of the parabola inside the interval, or
\* the middle of the interval
approximation(found, begin, end) ==
    IF found = <<>> THEN middle(begin, end) ELSE found[1]

\* the end of the loop body, with the interval narrowed to begin .. end
inverse_quadratic_narrowed(l, c, begin, end, sample3) ==
    IF NotNum(begin[1] \ominus end[1]) THEN Leave(l)
    ELSE IF is_converged(c, begin[1], end[1])
    THEN IF NotNum(middle(begin, end)) THEN Leave(l)
         ELSE Finish(l, Ok(middle(begin, end)))
    ELSE Iterate([begin |-> begin, end |-> end, sample3 |-> sample3,
                  iter |-> l.iter + 1], c)

inverse_quadratic_sample(l, c, sample3) ==
    IF NotNum(sample3[2]) \/ NotNum(sample3[2] \otimes l.begin[2])
    THEN Leave(l)
    ELSE IF is_root_found(c, sample3[2]) THEN Finish(l, Ok(sample3[1]))
    ELSE IF is_bracketed_with(sample3, l.begin)
    THEN inverse_quadratic_narrowed(l, c, l.begin, sample3, sample3)
    ELSE inverse_quadratic_narrowed(l, c, sample3, l.end, sample3)

inverse_quadratic_point(l, f, c, x3) ==
    IF NotNum(x3) THEN Leave(l)
    ELSE inverse_quadratic_sample(l, c, <<x3, apply(f, x3)>>)

\* the loop body with the roots of the parabola
inverse_quadratic_roots(l, f, c, parabola_roots) ==
    IF parabola_roots = Inexact THEN Leave(l)
    ELSE IF ~IsRoots(parabola_roots)
    THEN inverse_quadratic_point(l, f, c, middle(l.begin, l.end))
    ELSE inverse_quadratic_point(l, f, c,
             approximation(find_contained(parabola_roots, l.begin, l.end, 1),
                           l.begin, l.end))

inverse_quadratic_parabola(l, f, c, parabola) ==
    IF \E i \in 1 .. 3 : parabola[i] = NaR THEN Leave(l)
    ELSE inverse_quadratic_roots(l, f, c,
             find_roots_quadratic(parabola[1], parabola[2], parabola[3]))

\* one pass of the loop
inverse_quadratic_loop(l, f, c) ==
    inverse_quadratic_parabola(l, f, c,
        from_three_points(l.begin, l.end, l.sample3))

inverse_quadratic_third(sample1, sample2, c, sample3) ==
    IF NotNum(sample3[2]) THEN Leave(NoLocals)
    ELSE IF is_root_found(c, sample3[2]) THEN Finish(NoLocals, Ok(sample3[1]))
    ELSE Enter([begin |-> sample1, end |-> sample2, sample3 |-> sample3,
                iter |-> 0])

inverse_quadratic_middle(sample1, sample2, f, c, x3) ==
    IF NotNum(x3) THEN Leave(NoLocals)
    ELSE IF is_converged(c, sample1[1], sample2[1])
    THEN Finish(NoLocals, Ok(x3))
    ELSE inverse_quadratic_third(sample1, sample2, c, <<x3, apply(f, x3)>>)

inverse_quadratic_second(sample1, sample2, f, c) ==
    IF NotNum(sample2[2]) \/ sample1[2] \otimes sample2[2] = NaR
    THEN Leave(NoLocals)
    ELSE IF is_root_found(c, sample2[2]) THEN Finish(NoLocals, Ok(sample2[1]))
    ELSE IF ~is_bracketed_with(sample1, sample2)
    THEN Finish(NoLocals, Err("NoBracketing"))
    ELSE inverse_quadratic_middle(sample1, sample2, f, c,
                                  middle(sample1, sample2))

inverse_quadratic_first(sample1, x2, f, c) ==
    IF NotNum(sample1[2]) THEN Leave(NoLocals)
    ELSE IF is_root_found(c, sample1[2]) THEN Finish(NoLocals, Ok(sample1[1]))
    ELSE inverse_quadratic_second(sample1, <<x2, apply(f, x2)>>, f, c)

\* up to the loop
inverse_quadratic_start(a, b, f, c) ==
    IF RGt(a, b) THEN inverse_quadratic_first(<<b, apply(f, b)>>, a, f, c)
    ELSE inverse_quadratic_first(<<a, apply(f, a)>>, b, f, c)

(* find_root_brent: src/src/numerical/brent.rs *)

arrange(a, ya, b, yb) ==
    IF RGt(RAbs(ya), RAbs(yb)) THEN <<a, ya, b, yb>> ELSE <<b, yb, a, ya>>

\* a variant that starts the loop before testing the bracketing
brent_arranged_unchecked(p) ==
    Enter([a |-> p[1], ya |-> p[2], b |-> p[3], yb |-> p[4],
           c |-> p[1], yc |-> p[2], d |-> p[1], flag |-> TRUE,
           iter |-> 0])

brent_arranged(p) ==
    IF NotNum(p[2] \otimes p[4]) THEN Leave(NoLocals)
    ELSE IF RPos(p[2] \otimes p[4]) THEN Finish(NoLocals, Err("NoBracketing"))
    ELSE Enter([a |-> p[1], ya |-> p[2], b |-> p[3], yb |-> p[4],
                c |-> p[1], yc |-> p[2], d |-> p[1], flag |-> TRUE,
                iter |-> 0])

brent_values(a, ya, b, yb) ==
    IF NotNum(ya) \/ NotNum(yb) THEN Leave(NoLocals)
    ELSE brent_arranged(arrange(a, ya, b, yb))

\* up to the loop
brent_start(a, b, f) == brent_values(a, apply(f, a), b, apply(f, b))

\* inverse quadratic interpolation, or the secant
brent_s(l) ==
    IF l.ya # l.yc /\ l.yb # l.yc
    THEN (M3(l.a, l.yb, l.yc)
            \oslash ((l.ya \ominus l.yb) \otimes (l.ya \ominus l.yc)))
           \oplus (M3(l.b, l.ya, l.yc)
                     \oslash ((l.yb \ominus l.ya) \otimes (l.yb \ominus l.yc)))
           \oplus (M3(l.c, l.ya, l.yb)
                     \oslash ((l.yc \ominus l.ya) \otimes (l.yc \ominus l.yb)))
    ELSE l.b \ominus ((l.yb \otimes (l.b \ominus l.a)) \oslash (l.yb \ominus l.ya))

\* the left side of cond1
cond1_product(l, s) ==
    (s \ominus l.b)
       \otimes (s \ominus (((Three \otimes l.a) \oplus l.b) \oslash Four))

\* cond1 || cond2 || cond3 || cond4 || cond5
bisect(l, c, s) ==
    \/ RGt(cond1_product(l, s), Zero)
    \/ l.flag /\ RGe(RAbs(s \ominus l.b), RAbs(l.b \ominus l.c) \oslash Two)
    \/ ~l.flag /\ RGe(RAbs(s \ominus l.b), RAbs(l.c \ominus l.d) \oslash Two)
    \/ l.flag /\ is_converged(c, l.b, l.c)
    \/ ~l.flag /\ is_converged(c, l.c, l.d)

\* every value the conditions compare is a number
brent_exact(l, s) ==
    /\ ~NotNum(s)
    /\ ~NotNum(cond1_product(l, s))
    /\ ~NotNum(l.b \ominus l.c)
    /\ ~NotNum(l.c \ominus l.d)
    /\ ~NotNum((l.a \oplus l.b) \oslash Two)

brent_arranged_next(l, c, flag, p) ==
    Iterate([a |-> p[1], ya |-> p[2], b |-> p[3], yb |-> p[4],
             c |-> l.b, yc |-> l.yb, d |-> l.c, flag |-> flag,
             iter |-> l.iter + 1], c)

brent_sample(l, f, c, s, flag, ys) ==
    IF NotNum(ys) \/ NotNum(l.ya \otimes ys) THEN Leave(l)
    ELSE IF RNegative(l.ya \otimes ys)
    THEN IF NotNum(apply(f, l.a)) THEN Leave(l)
         ELSE brent_arranged_next(l, c, flag, arrange(l.a, apply(f, l.a), s, ys))
    ELSE IF NotNum(apply(f, l.b)) THEN Leave(l)
    ELSE brent_arranged_next(l, c, flag, arrange(s, ys, l.b, apply(f, l.b)))

brent_chosen(l, f, c, s, flag) == brent_sample(l, f, c, s, flag, apply(f, s))

brent_point(l, f, c, s) ==
    IF ~brent_exact(l, s) THEN Leave(l)
    ELSE IF bisect(l, c, s)
    THEN brent_chosen(l, f, c, (l.a \oplus l.b) \oslash Two, TRUE)
    ELSE brent_chosen(l, f, c, s, FALSE)

\* one pass of the loop
brent_loop(l, f, c) ==
    IF is_root_found(c, l.ya) THEN Finish(l, Ok(l.a))
    ELSE IF is_root_found(c, l.yb) THEN Finish(l, Ok(l.b))
    ELSE IF NotNum(l.a \ominus l.b) THEN Leave(l)
    ELSE IF is_converged(c, l.a, l.b) THEN Finish(l, Ok(l.c))
    ELSE brent_point(l, f, c, brent_s(l))

(* The callers of the iterative root finders. *)

Methods ==
    {"secant", "regula_falsi", "newton_raphson", "brent", "inverse_quadratic"}

Points == Coef(MaxPoint)

\* the arguments of a call: two points (one for Newton-Raphson), the
\* function and the convergency
Calls(method) ==
    IF method = "newton_raphson"
    THEN {[a |-> p, b |-> p, f |-> g, convergency |-> c] :
             p \in Points, g \in Funcs, c \in Convergencies}
    ELSE {[a |-> p, b |-> q, f |-> g, convergency |-> c] :
             p \in Points, q \in Points, g \in Funcs, c \in Convergencies}

InitNum ==
    /\ pc = "start"
    /\ fn \in Methods
    /\ args \in Calls(fn)
    /\ res = No
    /\ roots = No
    /\ old = No
    /\ new = Zero
    /\ loc = NoLocals
    /\ conv = NotConsulted

\* the convergency after a step that called is_iteration_limit_reached n
\* times, the last time with iter
observed(cv, n, iter, called) ==
    [iter |-> IF n > 0 THEN iter ELSE cv.iter,
     limit |-> cv.limit + n,
     consulted |-> cv.consulted \/ called]

\* a step of the running routine with the outcome o; called tells whether
\* the step called a method of the convergency
Step(o, called) ==
    /\ pc' = o.pc
    /\ loc' = o.loc
    /\ res' = o.res
    /\ conv' = observed(conv, o.limit,
                        IF o.limit > 0 THEN o.loc.iter ELSE 0, called)
    /\ UNCHANGED <<fn, args, roots, old, new>>

SecantStart ==
    /\ fn = "secant" /\ pc = "start"
    /\ Step(secant_start(args.a, args.b, args.f, args.convergency), TRUE)

SecantLoop ==
    /\ fn = "secant" /\ pc = "loop"
    /\ Step(secant_loop(loc, args.f, args.convergency), TRUE)

RegulaFalsiStart ==
    /\ fn = "regula_falsi" /\ pc = "start"
    /\ Step(regula_falsi_start(args.a, args.b, args.f, args.convergency), TRUE)

RegulaFalsiLoop ==
    /\ fn = "regula_falsi" /\ pc = "loop"
    /\ Step(regula_falsi_loop(loc, args.f, args.convergency), TRUE)

NewtonRaphsonStart ==
    /\ fn = "newton_raphson" /\ pc = "start"
    /\ Step(newton_raphson_start(args.a), FALSE)

NewtonRaphsonLoop ==
    /\ fn = "newton_raphson" /\ pc = "loop"
    /\ Step(newton_raphson_loop(loc, args.f, args.convergency), TRUE)

\* up to the loop find_root_brent calls no method of the convergency
BrentStart ==
    /\ fn = "brent" /\ pc = "start"
    /\ Step(brent_start(args.a, args.b, args.f), FALSE)

BrentLoop ==
    /\ fn = "brent" /\ pc = "loop"
    /\ Step(brent_loop(loc, args.f, args.convergency), TRUE)

InverseQuadraticStart ==
    /\ fn = "inverse_quadratic" /\ pc = "start"
    /\ Step(inverse_quadratic_start(args.a, args.b, args.f, args.convergency),
            TRUE)

InverseQuadraticLoop ==
    /\ fn = "inverse_quadratic" /\ pc = "loop"
    /\ Step(inverse_quadratic_loop(loc, args.f, args.convergency), TRUE)

NextNum ==
    \/ SecantStart
    \/ SecantLoop
    \/ RegulaFalsiStart
    \/ RegulaFalsiLoop
    \/ NewtonRaphsonStart
    \/ NewtonRaphsonLoop
    \/ BrentStart
    \/ BrentLoop
    \/ InverseQuadraticStart
    \/ InverseQuadraticLoop

SpecNum == InitNum /\ [][NextNum]_vars

----------------------------------------------------------------------------
(* Properties of the iterative root finders. *)

Bracketing == {"brent", "regula_falsi", "inverse_quadratic"}

\* f at the two initial points
InitialValues == <<apply(args.f, args.a), apply(args.f, args.b)>>

SameStrictSign(y) == RGt(y[1] \otimes y[2], Zero)

WithinTolerance(y) == RLt(RAbs(y), RAbs(args.convergency.eps))

\* C23: find_root_brent, find_root_regula_falsi and
\* find_root_inverse_quadratic return Err(NoBracketing) when the function
\* values at the two initial points have the same strict sign (for regula
\* falsi and inverse quadratic: and neither is within the tolerance), before
\* any iteration: is_iteration_limit_reached has not been called and the
\* iteration count the convergency observed is 0.
NoBracketingBeforeIterating ==
    (/\ fn \in Bracketing
     /\ pc # "start"
     /\ SameStrictSign(InitialValues)
     /\ \/ fn = "brent"
        \/ /\ ~WithinTolerance(InitialValues[1])
           /\ ~WithinTolerance(InitialValues[2])) =>
        /\ pc = "done"
        /\ res = Err("NoBracketing")
        /\ loc = NoLocals
        /\ conv.limit = 0
        /\ conv.iter = 0

\* find_root_brent refuses two values of the same sign although one of them
\* is within the tolerance
BrentRefusedSmallValue ==
    /\ fn = "brent" /\ Done
    /\ res = Err("NoBracketing")
    /\ WithinTolerance(InitialValues[1])
    /\ conv = NotConsulted

RegulaFalsiRefused ==
    /\ fn = "regula_falsi" /\ Done
    /\ res = Err("NoBracketing")
    /\ conv.iter = 0
    /\ conv.consulted

InverseQuadraticRefused ==
    /\ fn = "inverse_quadratic" /\ Done
    /\ res = Err("NoBracketing")
    /\ conv.iter = 0
    /\ conv.consulted

\* the number N from which is_iteration_limit_reached(iter) is true
IterationLimit(c) == IF c.kind = "float" THEN 30 ELSE c.max_iter

\* max(N, 1)
AtLeastOne(n) == IF n < 1 THEN 1 ELSE n

\* the most loop iterations a routine makes: max(N, 1), and for
\* Newton-Raphson one more for the restart from a bad starting point
MostIterations ==
    AtLeastOne(IterationLimit(args.convergency))
      + (IF fn = "newton_raphson" THEN 1 ELSE 0)

\* the routine's counter is the number of loop iterations completed; an
\* iteration can only begin below the bound, and a run that has reached the
\* convergency's limit has returned Err(NoConvergency)
IterationsBounded ==
    /\ loc # NoLocals => loc.iter <= MostIterations
    /\ pc = "loop" => loc.iter < MostIterations
    /\ (conv.limit > 0 /\ conv.iter >= IterationLimit(args.convergency)) =>
          (Done /\ res = Err("NoConvergency"))
    /\ (Done /\ res = Err("NoConvergency")) =>
          /\ conv.iter = loc.iter
          /\ conv.iter >= IterationLimit(args.convergency)

\* the runs of the root finders in which a call that has not returned
\* goes on: a routine is a sequential loop that nothing suspends, so a run
\* either has returned or takes another step.  This is WF_vars(NextNum) with
\* ENABLED <<NextNum>>_vars written out as ~Done: every step of NextNum
\* changes pc or the counter, and one is possible exactly until the return.
SpecNumFair == SpecNum /\ ([]<>Done \/ []<><<TRUE>>_vars)

\* C24: with a convergency whose is_iteration_limit_reached(iter) is true for
\* every iter >= N each of the five root finders terminates, after at most
\* max(N, 1) loop iterations (Newton-Raphson: one more for the restart), with
\* Err(NoConvergency) when the limit is reached.
IterationLimitTerminates == []IterationsBounded /\ <>Done

\* a run of Newton-Raphson with the bare float's limit of 30 iterations that
\* ends with NoConvergency
ThirtyIterations ==
    /\ Done /\ fn = "newton_raphson"
    /\ args.convergency.kind = "float"
    /\ res = Err("NoConvergency")
    /\ loc.iter = 30

\* with max_iter = 0 one iteration is made
OneIterationWithoutBudget ==
    /\ Done /\ args.convergency.kind = "simple"
    /\ args.convergency.max_iter = 0
    /\ res = Err("NoConvergency")
    /\ loc.iter = 1

\* Newton-Raphson restarts and reaches max(N, 1) + 1 iterations
RestartThenLimit ==
    /\ Done /\ fn = "newton_raphson"
    /\ res = Err("NoConvergency")
    /\ loc.iter = MostIterations


\* the function value and the derivative at the current point of
\* find_root_newton_raphson
NewtonValue == apply(args.f, loc.x)

NewtonDerivative == apply_derivative(args.f, loc.x)

NewtonValueFound == is_root_found(args.convergency, NewtonValue)

NewtonDerivativeFound == is_root_found(args.convergency, NewtonDerivative)

\* one pass of the loop of find_root_newton_raphson: a value within the
\* tolerance returns the point whatever the derivative is; otherwise a
\* derivative within the tolerance moves the point by 1 when no pass has
\* been counted yet and fails after that; a pass that goes on counts itself
NewtonOrder ==
    (/\ fn = "newton_raphson" /\ pc = "loop"
     /\ ~NotNum(NewtonValue) /\ ~NotNum(NewtonDerivative)) =>
        /\ NewtonValueFound => (pc' = "done" /\ res' = Ok(loc.x))
        /\ (~NewtonValueFound /\ NewtonDerivativeFound /\ loc.iter = 0) =>
              /\ pc' = "loop"
              /\ loc' = [x |-> loc.x \oplus One, iter |-> 1]
        /\ (~NewtonValueFound /\ NewtonDerivativeFound /\ loc.iter > 0) =>
              (pc' = "done" /\ res' = Err("ZeroDerivative"))
        /\ pc' = "loop" => loc'.iter = loc.iter + 1

\* C27: find_root_newton_raphson tests the function value before the
\* derivative at every point; a derivative within the tolerance of zero at
\* iteration 0 advances x by 1 and continues, which happens at most once, and
\* at any later iteration it returns Err(ZeroDerivative).
ValueBeforeDerivative == [][NewtonOrder]_vars

\* a point returned as the root although the derivative is zero there
RootWithZeroDerivative ==
    /\ fn = "newton_raphson" /\ Done
    /\ res = Ok(loc.x)
    /\ NewtonValueFound /\ NewtonDerivativeFound
    /\ NewtonDerivative = Zero

\* the run restarted from start + 1, the derivative at start being zero
RestartedOnce ==
    /\ fn = "newton_raphson" /\ pc = "loop"
    /\ loc = [x |-> args.a \oplus One, iter |-> 1]
    /\ is_root_found(args.convergency, apply_derivative(args.f, args.a))
    /\ ~is_root_found(args.convergency, apply(args.f, args.a))

\* a zero derivative after the restart fails
ZeroDerivativeLater ==
    /\ fn = "newton_raphson" /\ Done
    /\ res = Err("ZeroDerivative")
    /\ loc.iter > 0
    /\ ~NewtonValueFound /\ NewtonDerivativeFound


\* the three samples of the next call of Parabola::from_three_points have
\* pairwise different x
DistinctPoints ==
    /\ loc.begin[1] # loc.end[1]
    /\ loc.begin[1] # loc.sample3[1]
    /\ loc.end[1] # loc.sample3[1]

\* C29: in every loop iteration of find_root_inverse_quadratic, the second
\* and later ones included, Parabola::from_three_points is called with three
\* samples of pairwise distinct x, so that its denominator is never zero.
ParabolaPointsDistinct ==
    (fn = "inverse_quadratic" /\ pc = "loop") =>
        /\ DistinctPoints
        /\ denom(loc.begin, loc.end, loc.sample3) # Zero

\* the first iteration, with a < b, does get three distinct points
FirstParabolaPointsDistinct ==
    (/\ fn = "inverse_quadratic" /\ pc = "loop" /\ loc.iter = 0
     /\ args.a # args.b) =>
        /\ DistinctPoints
        /\ denom(loc.begin, loc.end, loc.sample3) # Zero

\* from the second iteration on sample3 is one of the interval's end points
LaterParabolaPointRepeated ==
    (fn = "inverse_quadratic" /\ pc = "loop" /\ loc.iter > 0) =>
        /\ loc.sample3 \in {loc.begin, loc.end}
        /\ denom(loc.begin, loc.end, loc.sample3) = Zero

\* a second iteration of find_root_inverse_quadratic is begun
SecondParabola ==
    fn = "inverse_quadratic" /\ pc = "loop" /\ loc.iter = 1


\* the two routines that keep a bracketing interval
Bracketers == {"regula_falsi", "inverse_quadratic"}

\* the interval's end points and their stored values, as <<x, y>> each
Begin(l, method) == IF method = "regula_falsi" THEN <<l.x1, l.y1>> ELSE l.begin

End(l, method) == IF method = "regula_falsi" THEN <<l.x2, l.y2>> ELSE l.end

\* x is a number of the interval of l
Inside(x, l, method) ==
    /\ ~NotNum(x)
    /\ ~RLt(x, Begin(l, method)[1])
    /\ ~RGt(x, End(l, method)[1])

\* at the start of an iteration x_begin <= x_end and the stored values have a
\* product <= 0
BracketAtHead ==
    (fn \in Bracketers /\ pc = "loop") =>
        /\ ~RGt(Begin(loc, fn)[1], End(loc, fn)[1])
        /\ ~NotNum(Begin(loc, fn)[2] \otimes End(loc, fn)[2])
        /\ ~RGt(Begin(loc, fn)[2] \otimes End(loc, fn)[2], Zero)

\* a point returned from the loop lies in the interval of the iteration that
\* computed it (a returning pass leaves the locals as they were)
ReturnedInside ==
    (/\ fn \in Bracketers /\ Done /\ loc # NoLocals
     /\ res[1] = "Ok") => Inside(res[2], loc, fn)

\* a pass that goes on moves one end point to the new sample, which lies in
\* the interval the pass began with
NarrowedInside ==
    (fn \in Bracketers /\ pc = "loop" /\ loc' # loc) =>
        /\ Inside(Begin(loc', fn)[1], loc, fn)
        /\ Inside(End(loc', fn)[1], loc, fn)
        /\ \/ Begin(loc', fn)[1] = Begin(loc, fn)[1]
           \/ End(loc', fn)[1] = End(loc, fn)[1]
        /\ fn = "inverse_quadratic" => Inside(loc'.sample3[1], loc, fn)

\* C28: in find_root_regula_falsi and find_root_inverse_quadratic, once the
\* bracketing check has passed, at the start of every loop iteration
\* x_begin <= x_end, the stored function values have a product <= 0, and each
\* new sample point lies inside the current interval.
BracketKept == []BracketAtHead /\ []ReturnedInside /\ [][NarrowedInside]_vars

\* the bracket itself is kept: end points in order, product of the values
\* <= 0, every continuing pass narrows the interval to a point inside it
BracketNarrows == []BracketAtHead /\ [][NarrowedInside]_vars

\* with a tolerance other than 0 every returned point is inside as well
ReturnedInsideWithTolerance ==
    args.convergency.eps # Zero => ReturnedInside

\* an interval narrowed twice, the second time after the Illinois halving
NarrowedTwice ==
    /\ fn \in Bracketers /\ pc = "loop" /\ loc.iter = 2

\* find_root_regula_falsi returned a sample that is no number
ReturnedNotANumber ==
    /\ fn = "regula_falsi" /\ Done /\ loc # NoLocals
    /\ res = Ok(DivZero)

=============================================================================
